---------------------------- MODULE Spec2Model ----------------------------
(***************************************************************************)
(* A model of the Sparkle appcast validator:                               *)
(*   - validate()        src/src/core/validator.ts  (rule engine,          *)
(*                        consolidation, sorting, counts)                  *)
(*   - validateRemote()  src/src/core/remote.ts     (batched URL probes)   *)
(*   - onRequestGet      src/functions/api/fetch.ts (fetch proxy and its   *)
(*                        SSRF guard, isPrivateIP)                         *)
(* Each subsystem has its own specification (SpecValidate, SpecRemote,     *)
(* SpecProxy, SpecClassify) over the shared variables; the variables of    *)
(* the other subsystems stay at their idle values.                         *)
(***************************************************************************)
EXTENDS Integers, Sequences, FiniteSets, TLC

VARIABLES
    \* ---- validate() ----
    xml,          \* the input document (what parseXml makes of the text)
    vpc,          \* position inside validate()
    diagnostics,  \* the diagnostics sink of validate()
    ruleIdx,      \* index into allRules of the next rule to run
    ran,          \* names of the rule functions that have been invoked
    result,       \* the ValidationResult returned, NoResult before
    \* ---- validateRemote() ----
    enclosures,   \* extractEnclosures(doc): the URLs to check, in order
    concurrency,  \* options.concurrency ?? 5
    rpc,          \* position inside validateRemote()
    batchStart,   \* the loop variable i
    probe,        \* per batch member: state of its checkUrl() call
    results,      \* the results array (enclosure index, UrlCheckResult)
    fetched,      \* enclosure indexes fetch() was called for, in call order
    remoteDiags,  \* diagnostics returned by validateRemote()
    cliDiagnostics, \* result.diagnostics of the CLI after its merge and sort
    \* ---- fetch proxy ----
    req,          \* the proxy request: the url parameter, parsed
    ppc,          \* position inside onRequestGet
    dns,          \* the DNS-over-HTTPS reply received, DnsNone before
    dnsQueried,   \* whether the DNS-over-HTTPS query was sent
    targetFetched,\* whether fetch(url) of the target was issued
    followed,     \* hosts that fetch requested on following a redirect
    response,     \* the proxy's answer: status code, 0 before
    \* ---- isPrivateIP as a function ----
    ipIn,         \* the address string handed to isPrivateIP
    ipOut,        \* its verdict, "none" before the call
    \* ---- the signature checks of validateEnclosure ----
    sigPc,        \* "check" before the signature checks, "done" after
    sigIn,        \* the value of the enclosure's sparkle:edSignature
    sigOut        \* the diagnostics pushed for it

valVars == <<xml, vpc, diagnostics, ruleIdx, ran, result>>
remVars == <<enclosures, concurrency, rpc, batchStart, probe, results,
             fetched, remoteDiags, cliDiagnostics>>
prxVars == <<req, ppc, dns, dnsQueried, targetFetched, followed, response>>
clsVars == <<ipIn, ipOut>>
sigVars == <<sigPc, sigIn, sigOut>>
vars == <<valVars, remVars, prxVars, clsVars, sigVars>>

-----------------------------------------------------------------------------
(* Generic helpers *)

Range(s) == {s[i] : i \in DOMAIN s}

Max(a, b) == IF a >= b THEN a ELSE b
Min(a, b) == IF a <= b THEN a ELSE b

RECURSIVE FlattenSeq(_)
FlattenSeq(ss) ==
    IF ss = <<>> THEN <<>> ELSE Head(ss) \o FlattenSeq(Tail(ss))

RECURSIVE SumSeq(_)
SumSeq(ns) == IF ns = <<>> THEN 0 ELSE Head(ns) + SumSeq(Tail(ns))

\* [f(1), ..., f(n)] as a sequence
SeqOf(n, f(_)) == [i \in 1..n |-> f(i)]

\* all sequences over S of length 0..n
SeqsUpTo(S, n) == UNION {[1..k -> S] : k \in 0..n}

-----------------------------------------------------------------------------
(***************************************************************************)
(* Strings.  A string is a sequence of one-character strings, so that      *)
(* startsWith, slice and the regular expressions of the code can be        *)
(* computed as the code computes them.                                     *)
(***************************************************************************)

DigitChars == <<"0", "1", "2", "3", "4", "5", "6", "7", "8", "9">>

IsDigit(c) == \E i \in DOMAIN DigitChars : DigitChars[i] = c

DigitVal(c) == (CHOOSE i \in DOMAIN DigitChars : DigitChars[i] = c) - 1

\* decimal text of a natural number
RECURSIVE NatToStr(_)
NatToStr(n) ==
    IF n < 10 THEN <<DigitChars[n + 1]>>
    ELSE NatToStr(n \div 10) \o <<DigitChars[(n % 10) + 1]>>

\* Number(text) for a text of decimal digits
RECURSIVE StrToNat(_)
StrToNat(s) ==
    IF s = <<>> THEN 0
    ELSE 10 * StrToNat(SubSeq(s, 1, Len(s) - 1)) + DigitVal(s[Len(s)])

\* String.prototype.startsWith
StartsWith(s, prefix) ==
    Len(s) >= Len(prefix) /\ SubSeq(s, 1, Len(prefix)) = prefix

\* String.prototype.slice(n), n >= 0
SliceFrom(s, n) == SubSeq(s, n + 1, Len(s))

\* String.prototype.split(ch)
RECURSIVE SplitOn(_, _)
SplitOn(s, ch) ==
    IF \A i \in DOMAIN s : s[i] # ch THEN <<s>>
    ELSE LET k == CHOOSE i \in DOMAIN s :
                      s[i] = ch /\ \A j \in 1..(i - 1) : s[j] # ch
         IN <<SubSeq(s, 1, k - 1)>> \o SplitOn(SubSeq(s, k + 1, Len(s)), ch)

UpperChars == <<"A", "B", "C", "D", "E", "F", "L">>
LowerChars == <<"a", "b", "c", "d", "e", "f", "l">>

\* String.prototype.toLowerCase, on the letters the inputs use
toLowerCase(s) ==
    [i \in DOMAIN s |->
        IF \E k \in DOMAIN UpperChars : UpperChars[k] = s[i]
          THEN LowerChars[CHOOSE k \in DOMAIN UpperChars : UpperChars[k] = s[i]]
          ELSE s[i]]

\* the match of /^(\d+)\.(\d+)\.(\d+)\.(\d+)$/ : the four groups, or <<>>
ipv4Match(s) ==
    LET parts == SplitOn(s, ".")
    IN IF /\ Len(parts) = 4
          /\ \A i \in 1..4 :
                parts[i] # <<>> /\ \A j \in DOMAIN parts[i] : IsDigit(parts[i][j])
         THEN [i \in 1..4 |-> StrToNat(parts[i])]
         ELSE <<>>

\* /^[\d.]+$/.test(s)
IsDigitsAndDots(s) ==
    s # <<>> /\ \A i \in DOMAIN s : IsDigit(s[i]) \/ s[i] = "."

Dotted(o) ==
    NatToStr(o[1]) \o <<".">> \o NatToStr(o[2]) \o <<".">>
      \o NatToStr(o[3]) \o <<".">> \o NatToStr(o[4])

STR_localhost == <<"l", "o", "c", "a", "l", "h", "o", "s", "t">>
STR_localhost_localdomain == <<"l", "o", "c", "a", "l", "h", "o", "s", "t", ".", "l", "o", "c", "a", "l", "d", "o", "m", "a", "i", "n">>
STR_127dot == <<"1", "2", "7", ".">>
STR_v6loopback == <<":", ":", "1">>
STR_v6loopback_bracketed == <<"[", ":", ":", "1", "]">>
STR_fe80colon == <<"f", "e", "8", "0", ":">>
STR_fc == <<"f", "c">>
STR_fd == <<"f", "d">>
STR_v4mapped == <<":", ":", "f", "f", "f", "f", ":">>

\* String.prototype.trim()
IsSpace(c) == c \in {" ", "\t", "\n"}

RECURSIVE trimStart(_)
trimStart(s) == IF s # <<>> /\ IsSpace(Head(s)) THEN trimStart(Tail(s)) ELSE s

RECURSIVE trimEnd(_)
trimEnd(s) ==
    IF s # <<>> /\ IsSpace(s[Len(s)])
      THEN trimEnd(SubSeq(s, 1, Len(s) - 1)) ELSE s

trim(s) == trimEnd(trimStart(s))

\* String.prototype.lastIndexOf(ch): 0-based, -1 when absent
lastIndexOf(s, ch) ==
    IF \A i \in DOMAIN s : s[i] # ch THEN -1
    ELSE (CHOOSE i \in DOMAIN s :
             s[i] = ch /\ \A j \in (i + 1)..Len(s) : s[j] # ch) - 1

\* String.prototype.substring(0, n)
SubstringTo(s, n) == SubSeq(s, 1, n)

-----------------------------------------------------------------------------
(***************************************************************************)
(* validate(): the document                                                *)
(*                                                                         *)
(* The document is the tree parseXml returns, reduced to what the rules    *)
(* read.  A modelled item stands for the concrete item                     *)
(*   <item><title>T</title><description>D</description>                    *)
(*     [<pubDate>Thu, DD Jul 2023 14:30:00 -0700</pubDate>]                *)
(*     [<sparkle:version>TEXT</sparkle:version>]                           *)
(*     [<sparkle:channel>NAME</sparkle:channel>]                           *)
(*     [<enclosure url=URL length="12345" [sparkle:version=TEXT]           *)
(*        type="application/octet-stream" sparkle:edSignature=VALID64/>]   *)
(*   </item>                                                               *)
(* inside a channel that has a <title> and a <link>.  When the sparkle     *)
(* prefix is not declared the document cannot use it (the parser is        *)
(* namespace-aware and strict), so such items have no sparkle:version      *)
(* element and the enclosure carries no signature attribute.               *)
(***************************************************************************)

MaxItems == 2

RootKinds == {"none", "rss", "other"}
NsKinds == {"none", "canonical", "variant"}
DeclKinds == {"none", "noEncoding", "withEncoding"}

\* the texts a version is given as, by name
VersionKinds == {"absent", "empty", "blank", "1", "2.5"}
VersionText(kind) ==
    CASE kind = "1" -> <<"1">>
      [] kind = "2.5" -> <<"2", ".", "5">>
      [] kind = "2.10" -> <<"2", ".", "1", "0">>
      [] kind = "blank" -> <<" ", " ", " ">>
      [] OTHER -> <<>>

\* the enclosure URLs, by name
UrlKinds == {"plain", "underscore", "underscores", "word", "query", "noext"}
UrlText(kind) ==
    CASE kind = "plain" -> <<"h", "t", "t", "p", "s", ":", "/", "/", "e", "x", "a", "m", "p", "l", "e", ".", "c", "o", "m", "/", "a", "p", "p", ".", "z", "i", "p">>
      [] kind = "underscore" -> <<"h", "t", "t", "p", "s", ":", "/", "/", "e", "x", "a", "m", "p", "l", "e", ".", "c", "o", "m", "/", "M", "y", "A", "p", "p", "_", "2", ".", "5", ".", "z", "i", "p">>
      [] kind = "underscores" -> <<"h", "t", "t", "p", "s", ":", "/", "/", "e", "x", "a", "m", "p", "l", "e", ".", "c", "o", "m", "/", "M", "y", "_", "C", "o", "o", "l", "_", "A", "p", "p", "_", "1", ".", "2", ".", "3", ".", "d", "m", "g">>
      [] kind = "word" -> <<"h", "t", "t", "p", "s", ":", "/", "/", "e", "x", "a", "m", "p", "l", "e", ".", "c", "o", "m", "/", "A", "p", "p", "_", "l", "a", "t", "e", "s", "t", ".", "z", "i", "p">>
      [] kind = "noext" -> <<"h", "t", "t", "p", "s", ":", "/", "/", "e", "x", "a", "m", "p", "l", "e", ".", "c", "o", "m", "/", "A", "p", "p", "_", "l", "a", "t", "e", "s", "t">>
      [] kind = "query" -> <<"h", "t", "t", "p", "s", ":", "/", "/", "e", "x", "a", "m", "p", "l", "e", ".", "c", "o", "m", "/", "M", "y", "A", "p", "p", "_", "2", ".", "5", ".", "z", "i", "p", "?", "v", "=", "1", ".", "0">>

\* An item's pubDate, as its distance in days from 1 Jan 2001 (every
\* modelled date has the same time of day and zone): Thu, 13 Jul 2023 is
\* day 8228 and Fri, 14 Jul 2023 is day 8229; Sat, 01 Jan 2000 is day -366.
EarliestReasonableDate == 0
PubDays == {8228, 8229}
OldDays == {-366}

\* the sparkle:channel an item is tagged with
ChannelKinds == {"none", "stable", "beta"}

ItemKinds ==
    [version : {"absent", "empty", "1"},
     encVersion : {"absent"},
     url : {"plain"},
     enclosure : BOOLEAN,
     pubDate : BOOLEAN,
     date : {8228},
     channel : {"none"}]

\* items that differ in how the version is given: in the element, in the
\* enclosure's attribute, in the file name of the URL
VersionItemKinds ==
    [version : VersionKinds,
     encVersion : VersionKinds,
     url : UrlKinds,
     enclosure : {TRUE},
     pubDate : {TRUE},
     date : {8228},
     channel : {"none"}]

\* items that differ in version, date and channel: each has a numeric
\* version in its sparkle:version element and a well-formed pubDate
OrderItemKinds ==
    [version : {"1", "2.5", "2.10"},
     encVersion : {"absent"},
     url : {"plain"},
     enclosure : {TRUE},
     pubDate : {TRUE},
     date : PubDays \cup OldDays,
     channel : ChannelKinds]

NoItems == <<>>

\* Documents without a root element: saxes reports at least one error
\* ("document must contain a root element"), and there are no elements.
DocsNoRoot ==
    [root : {"none"}, parseErrors : {1, 2}, rssVersion : {"absent"},
     sparkleNs : {"none"}, channels : {0}, items : {NoItems},
     xmlDecl : DeclKinds, cdataMatches : {0, 1}]

\* Documents whose root is some other element (e.g. <feed>), which may
\* still hold a channel with items.
DocsOtherRoot ==
    [root : {"other"}, parseErrors : {0, 1}, rssVersion : {"absent"},
     sparkleNs : {"canonical"}, channels : {0, 1},
     items : SeqsUpTo(ItemKinds, MaxItems),
     xmlDecl : DeclKinds, cdataMatches : {0, 1}]

DocsRss ==
    [root : {"rss"}, parseErrors : {0, 1}, rssVersion : {"2.0", "absent"},
     sparkleNs : NsKinds, channels : {0, 1, 2},
     items : SeqsUpTo(ItemKinds, MaxItems),
     xmlDecl : DeclKinds, cdataMatches : {0, 1}]

WellShaped(d) ==
    /\ d.channels = 0 => d.items = NoItems
    /\ d.sparkleNs = "none" =>
          /\ \A i \in DOMAIN d.items : d.items[i].version = "absent"
          /\ d.cdataMatches = 0

Docs == {d \in DocsNoRoot \cup DocsOtherRoot \cup DocsRss : WellShaped(d)}

\* one-item feeds, correct in everything but the way the item's version
\* is given, under the canonical namespace URI and under a variant
VersionDocs ==
    [root : {"rss"}, parseErrors : {0}, rssVersion : {"2.0"},
     sparkleNs : {"canonical", "variant"}, channels : {1},
     items : {<<it>> : it \in VersionItemKinds},
     xmlDecl : {"withEncoding"}, cdataMatches : {0}]

\* feeds of one to MaxItems items, correct in everything but, possibly,
\* the order and the dates of their items, under the canonical namespace
\* URI and under a variant
OrderDocs ==
    [root : {"rss"}, parseErrors : {0}, rssVersion : {"2.0"},
     sparkleNs : {"canonical", "variant"}, channels : {1},
     items : {s \in SeqsUpTo(OrderItemKinds, MaxItems) : Len(s) >= 1},
     xmlDecl : {"withEncoding"}, cdataMatches : {0}]

\* Line numbers the parser records (1-based): the XML declaration is on
\* line 1; the root on line 2, the first channel on line 3, item i
\* starts on line 10*i with its children on the following lines.
RootLine(d) == 2
ChannelLine(d) == 3
SecondChannelLine(d) == 90
ItemLine(i) == 10 * i
PubDateLine(i) == 10 * i + 1
VersionElLine(i) == 10 * i + 2
EnclosureLine(i) == 10 * i + 3
ParseErrorLine(k) == 4 * k
CdataLine(k) == 10 * k + 2

-----------------------------------------------------------------------------
(* Diagnostics *)

\* message is modelled by the id's base text plus the list of
\* "(and N more similar issues)" suffixes appended by consolidation
Diag(id, sev, line) ==
    [id |-> id, severity |-> sev, line |-> line, more |-> <<>>]

NoResult == [valid |-> FALSE, diagnostics |-> <<>>, errorCount |-> -1,
             warningCount |-> -1, infoCount |-> -1]

-----------------------------------------------------------------------------
(* parseXml: the parse-level diagnostics (E001 per saxes error) *)

parseXml(d) ==
    [document |-> d,
     diagnostics |-> SeqOf(d.parseErrors,
                           LAMBDA k : Diag("E001", "error", ParseErrorLine(k)))]


-----------------------------------------------------------------------------
(***************************************************************************)
(* Tree accessors (src/src/core/rules/utils.ts)                            *)
(***************************************************************************)

\* childElement(root, "channel"): the first un-namespaced <channel>
HasChannel(d) == d.root # "none" /\ d.channels >= 1

\* childElements(channel, "item") of the first channel
getItems(d) == IF HasChannel(d) THEN d.items ELSE <<>>

\* sparkleChildElement(item, "version"): found only when the element's
\* namespace is exactly SPARKLE_NS (utils.ts line 26)
sparkleVersionEl(d, it) == it.version # "absent" /\ d.sparkleNs = "canonical"

\* textContent(versionEl)
versionRawText(d, it) ==
    IF sparkleVersionEl(d, it) THEN VersionText(it.version) ELSE <<>>

\* versionEl ? textContent(versionEl).trim() : undefined (undefined and
\* "" are both falsy, and the code only tests the value's truthiness
\* before using it)
versionElText(d, it) == trim(versionRawText(d, it))

\* sparkleAttr(enclosure, "version") !== undefined: found by namespace,
\* else by the literal qualified name "sparkle:version"
hasEnclosureVersion(d, it) ==
    it.enclosure /\ it.encVersion # "absent" /\ d.sparkleNs # "none"

enclosureVersion(d, it) ==
    IF hasEnclosureVersion(d, it) THEN VersionText(it.encVersion) ELSE <<>>

\* sparkleAttr(enclosure, "edSignature"): by namespace, else by the
\* literal qualified name "sparkle:edSignature"
hasEdSignature(d, it) == it.enclosure /\ d.sparkleNs # "none"

\* sparkleChildElement(item, "channel") and the trimmed text of it; "none"
\* stands for undefined (no element found)
channelName(d, it) ==
    IF d.sparkleNs = "canonical" THEN it.channel ELSE "none"

\* parseRfc2822Date(textContent(pubDateEl).trim()).getTime(), counted in
\* days from EARLIEST_REASONABLE_DATE
dateTime(it) == it.date

-----------------------------------------------------------------------------
(***************************************************************************)
(* The rule modules.  Each is a function (document) -> diagnostics pushed. *)
(***************************************************************************)

\* src/src/core/rules/structure.ts
structureRules(d) ==
    IF d.root = "none" THEN <<>>
    ELSE IF d.root # "rss" THEN <<Diag("E002", "error", RootLine(d))>>
    ELSE
      (IF d.rssVersion # "2.0"
         THEN <<Diag("E003", "error", RootLine(d))>> ELSE <<>>)
      \o
      (IF d.sparkleNs = "none"
         THEN <<Diag("E004", "error", RootLine(d))>>
         ELSE IF d.sparkleNs # "canonical"
           THEN <<Diag("W026", "warning", RootLine(d))>> ELSE <<>>)
      \o
      (IF d.channels = 0
         THEN <<Diag("E005", "error", RootLine(d))>>
         ELSE
           (IF d.channels > 1
              THEN <<Diag("E006", "error", SecondChannelLine(d))>> ELSE <<>>)
           \o
           (IF Len(d.items) = 0
              THEN <<Diag("E007", "error", ChannelLine(d))>> ELSE <<>>))

\* The guard every other rule module starts with:
\*   if (!root || root.name !== "rss") return;
\*   const channel = childElement(root, "channel"); if (!channel) return;
RuleApplies(d) == d.root = "rss" /\ HasChannel(d)

\* enclosure.ts 473-475: /^\d+(\.\d+)*$/
isNumericVersion(v) ==
    /\ v # <<>>
    /\ \A i \in DOMAIN v : IsDigit(v[i]) \/ v[i] = "."
    /\ IsDigit(v[1]) /\ IsDigit(v[Len(v)])
    /\ \A i \in 1..(Len(v) - 1) : ~(v[i] = "." /\ v[i + 1] = ".")

\* enclosure.ts 492-518; null is written <<>>: the caller only tests the
\* result's truthiness, and "" is falsy as null is
extractVersionFromUrl(url) ==
    LET components == SplitOn(url, "_")
        lastComponent == components[Len(components)]
        lastDotIndex == lastIndexOf(lastComponent, ".")
        version == SubstringTo(lastComponent, lastDotIndex)
    IN IF Len(components) < 2 THEN <<>>
       ELSE IF lastDotIndex = -1 THEN lastComponent
       ELSE IF version = <<>> \/ ~\E i \in DOMAIN version : IsDigit(version[i])
         THEN <<>>
         ELSE version

\* lines 612-616
filenameVersion(d, it) ==
    IF it.enclosure THEN extractVersionFromUrl(UrlText(it.url)) ELSE <<>>

\* line 609: versionElText || enclosureVersion
explicitVersion(d, it) ==
    IF versionElText(d, it) # <<>> THEN versionElText(d, it)
    ELSE enclosureVersion(d, it)

\* line 649: explicitVersion || filenameVersion
effectiveVersion(d, it) ==
    IF explicitVersion(d, it) # <<>> THEN explicitVersion(d, it)
    ELSE filenameVersion(d, it)

\* parseInt(p, 10) || 0 on a text without sign or leading white space:
\* the number its leading digits spell, 0 if it has none
RECURSIVE leadingDigits(_)
leadingDigits(p) ==
    IF p # <<>> /\ IsDigit(Head(p))
      THEN <<Head(p)>> \o leadingDigits(Tail(p)) ELSE <<>>

parseIntOrZero(p) == StrToNat(leadingDigits(p))

\* enclosure.ts 525-536: negative, zero or positive
compareVersions(v1, v2) ==
    LET parts1 == SplitOn(v1, ".")
        parts2 == SplitOn(v2, ".")
        maxLen == Max(Len(parts1), Len(parts2))
        p1(i) == IF i <= Len(parts1) THEN parseIntOrZero(parts1[i]) ELSE 0
        p2(i) == IF i <= Len(parts2) THEN parseIntOrZero(parts2[i]) ELSE 0
        differ == {i \in 1..maxLen : p1(i) # p2(i)}
    IN IF differ = {} THEN 0
       ELSE LET i == CHOOSE k \in differ : \A j \in differ : k <= j
            IN p1(i) - p2(i)

\* versionRules, per item (src/src/core/rules/enclosure.ts 565-711).  The
\* items carry no shortVersionString (W008) and no os attribute.
versionItemDiags(d, items, i) ==
    LET it == items[i]
        afterVersion ==
           (IF ~isNumericVersion(effectiveVersion(d, it))
              THEN <<Diag("W027", "warning",
                          IF sparkleVersionEl(d, it) THEN VersionElLine(i)
                          ELSE EnclosureLine(i))>>
              ELSE <<>>)
           \o
           (IF versionElText(d, it) # <<>>
                 /\ versionElText(d, it) = enclosureVersion(d, it)
              THEN <<Diag("W007", "warning", EnclosureLine(i))>> ELSE <<>>)
    IN (IF sparkleVersionEl(d, it) /\ trim(versionRawText(d, it)) = <<>>
          THEN <<Diag("E029", "error", VersionElLine(i))>> ELSE <<>>)
       \o
       (IF hasEnclosureVersion(d, it) /\ trim(enclosureVersion(d, it)) = <<>>
          THEN <<Diag("E029", "error", EnclosureLine(i))>> ELSE <<>>)
       \o
       (IF explicitVersion(d, it) = <<>>
          THEN IF filenameVersion(d, it) # <<>>
                 THEN <<Diag("W041", "warning", ItemLine(i))>> \o afterVersion
                 ELSE <<Diag("E008", "error", ItemLine(i))>>
          ELSE afterVersion)

\* the items that reach the versionMap (no "continue" at E008)
versionTracked(d, items) ==
    {i \in DOMAIN items : effectiveVersion(d, items[i]) # <<>>}

\* lines 713-740, W020: the keys of versionMap come in the order of
\* their first items; for every key, each item after the first with that
\* key (the key is version|os|channel, "" for an undefined channel; os
\* is absent here)
duplicateVersionDiags(d, items) ==
    LET tracked == versionTracked(d, items)
        ver(i) == <<effectiveVersion(d, items[i]), channelName(d, items[i])>>
        firstOfKey(j) ==
           j \in tracked /\ \A k \in tracked : k < j => ver(k) # ver(j)
        dupes(j) ==
           FlattenSeq(SeqOf(Len(items), LAMBDA i :
              IF i \in tracked /\ i > j /\ ver(i) = ver(j)
                THEN <<Diag("W020", "warning", ItemLine(i))>> ELSE <<>>))
    IN FlattenSeq(SeqOf(Len(items), LAMBDA j :
           IF firstOfKey(j) THEN dupes(j) ELSE <<>>))

\* lines 665-673: the indexes of the items pushed to
\* itemsWithDateAndVersion, in document order
itemsWithDateAndVersion(d, items) ==
    SelectSeq([i \in 1..Len(items) |-> i], LAMBDA i :
        /\ i \in versionTracked(d, items)
        /\ items[i].pubDate
        /\ isNumericVersion(effectiveVersion(d, items[i])))

\* [...itemsWithDateAndVersion].sort((a, b) => a.date - b.date): the
\* sort is stable
RECURSIVE InsertByDate(_, _, _)
InsertByDate(items, sorted, x) ==
    IF sorted = <<>> THEN <<x>>
    ELSE IF dateTime(items[Head(sorted)]) - dateTime(items[x]) <= 0
      THEN <<Head(sorted)>> \o InsertByDate(items, Tail(sorted), x)
      ELSE <<x>> \o sorted

RECURSIVE sortedByDate(_, _)
sortedByDate(items, idxs) ==
    IF idxs = <<>> THEN <<>>
    ELSE InsertByDate(items,
                      sortedByDate(items, SubSeq(idxs, 1, Len(idxs) - 1)),
                      idxs[Len(idxs)])

\* lines 742-766, W028: over the items sorted by date, each one whose
\* version is lower than that of the one before it
versionDateDiags(d, items) ==
    LET sorted == sortedByDate(items, itemsWithDateAndVersion(d, items))
    IN IF Len(sorted) < 2 THEN <<>>
       ELSE FlattenSeq(SeqOf(Len(sorted), LAMBDA i :
              IF i >= 2 /\ compareVersions(
                              effectiveVersion(d, items[sorted[i]]),
                              effectiveVersion(d, items[sorted[i - 1]])) < 0
                THEN <<Diag("W028", "warning", ItemLine(sorted[i]))>>
                ELSE <<>>))

versionRules(d) ==
    IF ~RuleApplies(d) THEN <<>>
    ELSE LET items == getItems(d)
         IN FlattenSeq(SeqOf(Len(items),
                             LAMBDA i : versionItemDiags(d, items, i)))
            \o duplicateVersionDiags(d, items)
            \o versionDateDiags(d, items)

\* enclosureRules (src/src/core/rules/enclosure.ts 90-213) and
\* validateEnclosure (217-358) on the modelled enclosure
enclosureRules(d) ==
    IF ~RuleApplies(d) THEN <<>>
    ELSE LET items == getItems(d)
         IN FlattenSeq(SeqOf(Len(items), LAMBDA i :
              IF ~items[i].enclosure
                THEN <<Diag("E009", "error", ItemLine(i))>>
                ELSE IF ~hasEdSignature(d, items[i])
                  THEN <<Diag("I010", "info", EnclosureLine(i))>>
                  ELSE <<>>))

\* dates.ts 32-109: the indexes of the items pushed to "dates"
datedItems(items) ==
    SelectSeq([i \in 1..Len(items) |-> i], LAMBDA i : items[i].pubDate)

\* dates.ts 111-132, W018: some date later than the one before it; the
\* diagnostic is at the first item of the channel
sortOrderDiags(items) ==
    LET dates == datedItems(items)
        sorted == \A i \in 2..Len(dates) :
                     ~(dateTime(items[dates[i]]) > dateTime(items[dates[i - 1]]))
    IN IF Len(dates) >= 2 /\ ~sorted
         THEN <<Diag("W018", "warning", ItemLine(1))>> ELSE <<>>

\* dateRules (src/src/core/rules/dates.ts): W003 for a missing pubDate,
\* W026 for a date before 2001; the modelled dates are well-formed and
\* in the past, so W004 and W025 do not arise
dateRules(d) ==
    IF ~RuleApplies(d) THEN <<>>
    ELSE LET items == getItems(d)
         IN FlattenSeq(SeqOf(Len(items), LAMBDA i :
              IF ~items[i].pubDate
                THEN <<Diag("W003", "warning", ItemLine(i))>>
                ELSE IF dateTime(items[i]) < EarliestReasonableDate
                  THEN <<Diag("W026", "warning", PubDateLine(i))>>
                  ELSE <<>>))
            \o sortOrderDiags(items)

\* The remaining rule modules find nothing on the modelled items: the URL
\* is a valid https URL with a .zip or .dmg extension, there are no system
\* requirements, the item has a <description>, a sparkle:channel (if
\* any) of letters only, no phased rollout, and channel and items have
\* titles and a link.
urlRules(d) == <<>>
systemRequirementRules(d) == <<>>
releaseNotesRules(d) == <<>>
channelRules(d) == <<>>
rolloutRules(d) == <<>>
bestPracticeRules(d) == <<>>

\* infoRules (src/src/core/rules/info.ts): I001, the summary
infoRules(d) ==
    IF ~RuleApplies(d) THEN <<>>
    ELSE IF Len(getItems(d)) > 0
      THEN <<Diag("I001", "info", ChannelLine(d))>> ELSE <<>>

\* allRules, in order (src/src/core/rules/utils.ts 184-196)
allRules ==
    <<"structureRules", "versionRules", "enclosureRules", "dateRules",
      "urlRules", "systemRequirementRules", "releaseNotesRules",
      "channelRules", "rolloutRules", "bestPracticeRules", "infoRules">>

\* rule(document, diagnostics): what the named rule pushes
ApplyRule(name, d) ==
    CASE name = "structureRules" -> structureRules(d)
      [] name = "versionRules" -> versionRules(d)
      [] name = "enclosureRules" -> enclosureRules(d)
      [] name = "dateRules" -> dateRules(d)
      [] name = "urlRules" -> urlRules(d)
      [] name = "systemRequirementRules" -> systemRequirementRules(d)
      [] name = "releaseNotesRules" -> releaseNotesRules(d)
      [] name = "channelRules" -> channelRules(d)
      [] name = "rolloutRules" -> rolloutRules(d)
      [] name = "bestPracticeRules" -> bestPracticeRules(d)
      [] name = "infoRules" -> infoRules(d)

\* xmlFormatRules(document, diagnostics, rawXml)
\* (src/unnamed/part_007): W039 from the XML declaration, whatever the
\* tree; W038 per regex match in the raw text, only if there is a root
xmlFormatRules(d) ==
    (IF d.xmlDecl = "noEncoding"
       THEN <<Diag("W039", "warning", 1)>> ELSE <<>>)
    \o
    (IF d.root # "none"
       THEN SeqOf(d.cdataMatches,
                  LAMBDA k : Diag("W038", "warning", CdataLine(k)))
       ELSE <<>>)

-----------------------------------------------------------------------------
(***************************************************************************)
(* validate(): consolidation, sorting, counting                            *)
(* (src/src/core/validator.ts)                                             *)
(***************************************************************************)

\* the group of an id: the indexes of the diagnostics with that id
GroupOf(diags, id) == {j \in DOMAIN diags : diags[j].id = id}

IsFirstOfGroup(diags, i) == \A j \in GroupOf(diags, diags[i].id) : i <= j

\* each group reduced to its last member instead of its first
consolidateKeepingLast(diags) ==
    FlattenSeq(SeqOf(Len(diags), LAMBDA i :
        IF \E j \in GroupOf(diags, diags[i].id) : j > i THEN <<>>
        ELSE LET count == Cardinality(GroupOf(diags, diags[i].id))
             IN IF count = 1 THEN <<diags[i]>>
                ELSE <<[diags[i] EXCEPT !.more = @ \o <<count - 1>>]>>))

\* the count suffix appended whatever the size of the group
consolidateAlwaysCounting(diags) ==
    FlattenSeq(SeqOf(Len(diags), LAMBDA i :
        IF ~IsFirstOfGroup(diags, i) THEN <<>>
        ELSE LET count == Cardinality(GroupOf(diags, diags[i].id))
             IN <<[diags[i] EXCEPT !.more = @ \o <<count - 1>>]>>))

\* Map iteration is in insertion order: the groups come out in the order
\* of their first members.  A group of one passes through; otherwise the
\* first member is copied and its message gets the suffix
\* " (and <count - 1> more similar issue[s])".
consolidateDiagnostics(diags) ==
    FlattenSeq(SeqOf(Len(diags), LAMBDA i :
        IF ~IsFirstOfGroup(diags, i) THEN <<>>
        ELSE LET count == Cardinality(GroupOf(diags, diags[i].id))
             IN IF count = 1 THEN <<diags[i]>>
                ELSE <<[diags[i] EXCEPT !.more = @ \o <<count - 1>>]>>))

severityOrder(sev) ==
    CASE sev = "error" -> 0 [] sev = "warning" -> 1 [] sev = "info" -> 2

\* a comparator that looks at the line alone
compareLinesOnly(a, b) == a.line - b.line

\* the comparator handed to Array.prototype.sort (every modelled
\* diagnostic has a line; a missing one would count as 0)
compareDiagnostics(a, b) ==
    LET sev == severityOrder(a.severity) - severityOrder(b.severity)
    IN IF sev # 0 THEN sev ELSE a.line - b.line

\* Array.prototype.sort is stable: insertion after the last element
\* that does not compare greater
RECURSIVE InsertSorted(_, _)
InsertSorted(sorted, x) ==
    IF sorted = <<>> THEN <<x>>
    ELSE IF compareDiagnostics(Head(sorted), x) <= 0
      THEN <<Head(sorted)>> \o InsertSorted(Tail(sorted), x)
      ELSE <<x>> \o sorted

RECURSIVE sortDiagnostics(_)
sortDiagnostics(diags) ==
    IF diags = <<>> THEN <<>>
    ELSE InsertSorted(sortDiagnostics(SubSeq(diags, 1, Len(diags) - 1)),
                      diags[Len(diags)])

\* a count taken before consolidation: every folded occurrence counts
countSeverityWithSimilar(diags, sev) ==
    LET sel == SelectSeq(diags, LAMBDA d : d.severity = sev)
    IN Len(sel) + SumSeq(FlattenSeq([i \in DOMAIN sel |-> sel[i].more]))

\* diagnostics.filter((d) => d.severity === sev).length
countSeverity(diags, sev) ==
    Len(SelectSeq(diags, LAMBDA d : d.severity = sev))

\* Steps 4 and the return of validate(): lines 81-109
assembleResult(raw) ==
    LET consolidated == sortDiagnostics(consolidateDiagnostics(raw))
        errorCount == countSeverity(consolidated, "error")
    IN [valid |-> errorCount = 0,
        diagnostics |-> consolidated,
        errorCount |-> errorCount,
        warningCount |-> countSeverity(consolidated, "warning"),
        infoCount |-> countSeverity(consolidated, "info")]

\* the test with the root condition dropped into its opposite
hasParseErrorWithRoot(d, parseDiags) ==
    (\E i \in DOMAIN parseDiags : parseDiags[i].severity = "error")
    /\ d.root # "none"

\* lines 52-53
hasFatalParseError(d, parseDiags) ==
    (\E i \in DOMAIN parseDiags : parseDiags[i].severity = "error")
    /\ d.root = "none"

FatalStructuralIds == {"E002", "E003", "E004", "E005", "E006", "E007"}

\* a break on every fatal structural error, channel and items or not
structuralBreakOnAnyFatal(diags) ==
    \E i \in DOMAIN diags :
       diags[i].severity = "error" /\ diags[i].id \in FatalStructuralIds

\* lines 62-74: after the first rule, whether the loop breaks
structuralBreak(diags) ==
    /\ \E i \in DOMAIN diags :
          diags[i].severity = "error" /\ diags[i].id \in FatalStructuralIds
    /\ LET hasChannel == \A i \in DOMAIN diags : diags[i].id # "E005"
           hasItems == \A i \in DOMAIN diags : diags[i].id # "E007"
       IN ~hasChannel \/ ~hasItems

-----------------------------------------------------------------------------
(* validate() as a state machine *)

ValIdle ==
    /\ xml = [root |-> "none"] /\ vpc = "idle" /\ diagnostics = <<>>
    /\ ruleIdx = 0 /\ ran = {} /\ result = NoResult

InitValidateVars ==
    /\ xml \in Docs
    /\ vpc = "parse"
    /\ diagnostics = <<>>
    /\ ruleIdx = 0
    /\ ran = {}
    /\ result = NoResult

\* Step 1: parseXml and the fatal-parse-error test
Parse ==
    /\ vpc = "parse"
    /\ LET parsed == parseXml(xml)
       IN /\ diagnostics' = diagnostics \o parsed.diagnostics
          /\ IF hasFatalParseError(parsed.document, parsed.diagnostics)
               THEN vpc' = "assemble" /\ ruleIdx' = 0
               ELSE vpc' = "rules" /\ ruleIdx' = 1
    /\ UNCHANGED <<xml, ran, result>>
    /\ UNCHANGED <<remVars, prxVars, clsVars, sigVars>>

\* Step 2: one iteration of "for (const rule of allRules)"
RunRule ==
    /\ vpc = "rules"
    /\ LET rule == allRules[ruleIdx]
           after == diagnostics \o ApplyRule(rule, xml)
       IN /\ diagnostics' = after
          /\ ran' = ran \cup {rule}
          /\ IF (ruleIdx = 1 /\ structuralBreak(after))
                  \/ ruleIdx = Len(allRules)
               THEN vpc' = "xmlformat" /\ ruleIdx' = ruleIdx
               ELSE vpc' = "rules" /\ ruleIdx' = ruleIdx + 1
    /\ UNCHANGED <<xml, result>>
    /\ UNCHANGED <<remVars, prxVars, clsVars, sigVars>>

\* Step 3: xmlFormatRules(document, diagnostics, xml)
XmlFormat ==
    /\ vpc = "xmlformat"
    /\ diagnostics' = diagnostics \o xmlFormatRules(xml)
    /\ ran' = ran \cup {"xmlFormatRules"}
    /\ vpc' = "assemble"
    /\ UNCHANGED <<xml, ruleIdx, result>>
    /\ UNCHANGED <<remVars, prxVars, clsVars, sigVars>>

\* Step 4 to the return
Assemble ==
    /\ vpc = "assemble"
    /\ result' = assembleResult(diagnostics)
    /\ vpc' = "done"
    /\ UNCHANGED <<xml, diagnostics, ruleIdx, ran>>
    /\ UNCHANGED <<remVars, prxVars, clsVars, sigVars>>

NextValidate == Parse \/ RunRule \/ XmlFormat \/ Assemble

-----------------------------------------------------------------------------
(***************************************************************************)
(* isPrivateIP (src/functions/api/fetch.ts 18-74)                          *)
(***************************************************************************)

\* the shorter list of remote.ts: loopback, RFC 1918 and link-local only
isPrivateIPv4Short(m) ==
    LET a == m[1]  b == m[2]
    IN \/ a = 127
       \/ a = 10
       \/ a = 172 /\ b >= 16 /\ b <= 31
       \/ a = 192 /\ b = 168
       \/ a = 169 /\ b = 254

isPrivateIPv4(m) ==
    LET a == m[1]  b == m[2]  c == m[3]  d == m[4]
    IN IF a > 255 \/ b > 255 \/ c > 255 \/ d > 255 THEN TRUE
       ELSE IF a = 0 THEN TRUE
       ELSE IF a = 10 THEN TRUE
       ELSE IF a = 100 /\ b >= 64 /\ b <= 127 THEN TRUE
       ELSE IF a = 127 THEN TRUE
       ELSE IF a = 169 /\ b = 254 THEN TRUE
       ELSE IF a = 172 /\ b >= 16 /\ b <= 31 THEN TRUE
       ELSE IF a = 192 /\ b = 0 /\ c = 0 THEN TRUE
       ELSE IF a = 192 /\ b = 0 /\ c = 2 THEN TRUE
       ELSE IF a = 192 /\ b = 168 THEN TRUE
       ELSE IF a = 198 /\ (b = 18 \/ b = 19) THEN TRUE
       ELSE IF a = 198 /\ b = 51 /\ c = 100 THEN TRUE
       ELSE IF a = 203 /\ b = 0 /\ c = 113 THEN TRUE
       ELSE IF a >= 224 /\ a <= 239 THEN TRUE
       ELSE IF a >= 240 THEN TRUE
       ELSE FALSE

RECURSIVE isPrivateIP(_)
isPrivateIP(ip) ==
    LET m == ipv4Match(ip)
        ipv6 == toLowerCase(ip)
    IN IF m # <<>> THEN isPrivateIPv4(m)
       ELSE IF ipv6 = STR_v6loopback THEN TRUE
       ELSE IF StartsWith(ipv6, STR_fe80colon) THEN TRUE
       ELSE IF StartsWith(ipv6, STR_fc) \/ StartsWith(ipv6, STR_fd) THEN TRUE
       ELSE IF StartsWith(ipv6, STR_v4mapped)
         THEN isPrivateIP(SliceFrom(ipv6, 7))
       ELSE FALSE

-----------------------------------------------------------------------------
(***************************************************************************)
(* Hosts.  A host is the text URL.hostname yields for it (the WHATWG URL   *)
(* serialiser: lower case, an IPv6 literal in square brackets, in          *)
(* compressed hexadecimal groups also when it was written with a dotted    *)
(* IPv4 tail), together with the addresses it stands for: itself for a     *)
(* literal, its A records for a name.  An address is its version and its   *)
(* octets (IPv4) or its eight 16-bit groups (IPv6).                        *)
(***************************************************************************)

Addr4(a, b, c, d) == [v |-> 4, w |-> <<a, b, c, d>>]
Addr6(g) == [v |-> 6, w |-> g]

Literal4(a, b, c, d) ==
    [text |-> Dotted(<<a, b, c, d>>), kind |-> "v4",
     addrs |-> {Addr4(a, b, c, d)}]

Literal6(text, g) == [text |-> text, kind |-> "v6", addrs |-> {Addr6(g)}]

Name(text, addrs) == [text |-> text, kind |-> "name", addrs |-> addrs]

H_localhost == Name(STR_localhost, {Addr4(127, 0, 0, 1)})
H_private10 == Literal4(10, 0, 0, 5)
H_private172 == Literal4(172, 16, 0, 1)
H_private192 == Literal4(192, 168, 1, 10)
H_loopback4 == Literal4(127, 0, 0, 1)
H_metadata == Literal4(169, 254, 169, 254)
H_public4 == Literal4(8, 8, 8, 8)
H_loopback6 == Literal6(STR_v6loopback_bracketed, <<0, 0, 0, 0, 0, 0, 0, 1>>)
H_linklocal6 ==
    Literal6(<<"[", "f", "e", "8", "0", ":", ":", "1", "]">>, <<65152, 0, 0, 0, 0, 0, 0, 1>>)
H_uniquelocal6 ==
    Literal6(<<"[", "f", "d", "0", "0", ":", ":", "1", "]">>, <<64768, 0, 0, 0, 0, 0, 0, 1>>)
\* http://[::ffff:10.0.0.1]/ : hostname "[::ffff:a00:1]"
H_mapped6 ==
    Literal6(<<"[", ":", ":", "f", "f", "f", "f", ":", "a", "0", "0", ":", "1", "]">>, <<0, 0, 0, 0, 0, 65535, 2560, 1>>)
H_public6 ==
    Literal6(<<"[", "2", "6", "0", "6", ":", "4", "7", "0", "0", ":", ":", "1", "1", "1", "1", "]">>, <<9734, 18176, 0, 0, 0, 0, 0, 4369>>)
H_internalName == Name(<<"i", "n", "t", "r", "a", "n", "e", "t", ".", "c", "o", "r", "p">>, {Addr4(10, 0, 0, 5)})
H_mixedName ==
    Name(<<"m", "i", "x", "e", "d", ".", "e", "x", "a", "m", "p", "l", "e">>, {Addr4(8, 8, 8, 8), Addr4(10, 0, 0, 5)})
H_publicName == Name(<<"e", "x", "a", "m", "p", "l", "e", ".", "c", "o", "m">>, {Addr4(93, 184, 216, 34)})
H_unresolvable == Name(<<"n", "x", ".", "i", "n", "v", "a", "l", "i", "d">>, {})

\* new URL(url).hostname.toLowerCase()
hostnameOf(h) == toLowerCase(h.text)

-----------------------------------------------------------------------------
(***************************************************************************)
(* validateRemote (src/src/core/remote.ts)                                 *)
(***************************************************************************)

\* isLocalOrPrivateUrl, lines 148-186 (every modelled URL parses, so the
\* catch branch is not taken)
isLocalOrPrivateUrl(h) ==
    LET hostname == hostnameOf(h)
        m == ipv4Match(hostname)
    IN IF hostname = STR_localhost \/ hostname = STR_localhost_localdomain
         THEN TRUE
       ELSE IF StartsWith(hostname, STR_127dot) THEN TRUE
       ELSE IF hostname = STR_v6loopback \/ hostname = STR_v6loopback_bracketed
         THEN TRUE
       ELSE IF m # <<>> /\ m[1] = 10 THEN TRUE
       ELSE IF m # <<>> /\ m[1] = 172 /\ m[2] >= 16 /\ m[2] <= 31 THEN TRUE
       ELSE IF m # <<>> /\ m[1] = 192 /\ m[2] = 168 THEN TRUE
       ELSE IF m # <<>> /\ m[1] = 169 /\ m[2] = 254 THEN TRUE
       ELSE FALSE

\* Array.prototype.slice(start, end) on an array of length len: the
\* (1-based) indexes it returns, in order
\* a slice that yields nothing when its end lies beyond the array
sliceIndexesWithinOnly(len, start, end) ==
    IF end > len THEN <<>>
    ELSE [k \in 1..(Min(end, len) - Max(start, 0)) |-> Max(start, 0) + k]

sliceIndexes(len, start, end) ==
    LET rel(x) == IF x < 0 THEN Max(len + x, 0) ELSE Min(x, len)
        from == rel(start)
        to == rel(end)
    IN IF from < to THEN [k \in 1..(to - from) |-> from + k] ELSE <<>>

\* UrlCheckResult: status 0 is null, contentLength -1 is null
Result(status, contentLength, error, redirected, skipped) ==
    [status |-> status, contentLength |-> contentLength, error |-> error,
     redirected |-> redirected, skipped |-> skipped]

SkippedResult == Result(0, -1, FALSE, FALSE, TRUE)

\* what fetch() can do to a probe of an enclosure with declared length n: a
\* response (its status, its content-length header, whether a redirect was
\* followed) or a rejection (network fault, abort on timeout)
FetchOutcomes(n) ==
    { Result(200, n, FALSE, FALSE, FALSE),
      Result(200, n, FALSE, TRUE, FALSE),
      Result(200, n + 1, FALSE, FALSE, FALSE),
      Result(200, -1, FALSE, FALSE, FALSE),
      Result(404, -1, FALSE, FALSE, FALSE),
      Result(0, -1, TRUE, FALSE, FALSE) }

\* the result of the catch branch, lines 324-334
FaultResult == Result(0, -1, TRUE, FALSE, FALSE)

\* once its controller has aborted, a fetch can only reject (AbortError)
SettleOutcomes(p, n) ==
    IF p.st = "aborted" THEN {FaultResult} ELSE FetchOutcomes(n)

Pending == Result(0, -1, FALSE, FALSE, FALSE)

\* element.line of the e-th extracted element: the first two (an
\* enclosure and the delta enclosure that follows it) are written on one
\* line of the file, every later one on a line of its own
RemoteElementLine(e) == EnclosureLine((e + 1) \div 2)

RDiag(id, sev, enc) ==
    [id |-> id, severity |-> sev, line |-> RemoteElementLine(enc), enc |-> enc,
     more |-> <<>>]

\* lines 391-473: the checks made of a result that was not skipped
probedDiagnostics(encs, r) ==
    LET e == r.enc
        res == r.res
        declared == encs[e].length
    IN (IF encs[e].isHttp THEN <<RDiag("W024", "warning", e)>> ELSE <<>>)
       \o
       (IF res.error THEN <<RDiag("E027", "error", e)>>
        ELSE IF res.status # 0 /\ (res.status < 200 \/ res.status >= 300)
          THEN <<RDiag("E027", "error", e)>> ELSE <<>>)
       \o
       (IF res.contentLength # -1 /\ declared > 0
             /\ res.contentLength # declared
          THEN <<RDiag("E028", "error", e)>> ELSE <<>>)
       \o
       (IF res.redirected THEN <<RDiag("W021", "warning", e)>> ELSE <<>>)
       \o
       (IF res.status # 0 /\ res.status >= 200 /\ res.status < 300
             /\ res.contentLength = -1 /\ declared > 0
          THEN <<RDiag("W022", "warning", e)>> ELSE <<>>)

\* the loop body without its "continue": a skipped result falls through
resultDiagnosticsNoContinue(encs, r) ==
    (IF r.res.skipped THEN <<RDiag("W023", "warning", r.enc)>> ELSE <<>>)
    \o probedDiagnostics(encs, r)

\* lines 373-474: the diagnostics of one result
resultDiagnostics(encs, r) ==
    IF r.res.skipped THEN <<RDiag("W023", "warning", r.enc)>>
    ELSE probedDiagnostics(encs, r)

reportDiagnostics(encs, rs) ==
    FlattenSeq(SeqOf(Len(rs), LAMBDA k : resultDiagnostics(encs, rs[k])))

\* the enclosures extractEnclosures hands over: URL (host, scheme) and the
\* declared length
Enclosure(h, isHttp) == [host |-> h, isHttp |-> isHttp, length |-> 100]

MaxUrls == 3
MaxConcurrency == 2
MaxRewind == 2
DefaultConcurrency == 5

RemoteUrls ==
    { Enclosure(H_publicName, FALSE), Enclosure(H_private10, TRUE),
      Enclosure(H_linklocal6, FALSE), Enclosure(H_internalName, FALSE) }

\* options.concurrency is passed on unchecked
ConcurrencyValues == {-1, 0} \cup (1..MaxConcurrency) \cup {DefaultConcurrency}

RemIdle ==
    /\ enclosures = <<>>
    /\ concurrency = DefaultConcurrency
    /\ rpc = "idle"
    /\ batchStart = 0
    /\ probe = <<>>
    /\ results = <<>>
    /\ fetched = <<>>
    /\ remoteDiags = <<>>
    /\ cliDiagnostics = <<>>

\* the documents checked: up to MaxUrls enclosure URLs, no URL twice
RemoteDocuments ==
    {s \in SeqsUpTo(RemoteUrls, MaxUrls) :
        \A i, j \in DOMAIN s : i # j => s[i] # s[j]}

InitRemoteVars ==
    /\ enclosures \in RemoteDocuments
    /\ concurrency \in ConcurrencyValues
    /\ rpc = "start"
    /\ batchStart = 0
    /\ probe = <<>>
    /\ results = <<>>
    /\ fetched = <<>>
    /\ remoteDiags = <<>>
    /\ cliDiagnostics = <<>>

\* lines 346-359
RemoteStart ==
    /\ rpc = "start"
    /\ rpc' = IF Len(enclosures) = 0 THEN "done" ELSE "loop"
    /\ UNCHANGED <<enclosures, concurrency, batchStart, probe, results,
                   fetched, remoteDiags, cliDiagnostics>>
    /\ UNCHANGED <<valVars, prxVars, clsVars, sigVars>>

\* checkUrl line 278: isLocalOrPrivateUrl(url), computed once for each
\* of the URLs an enclosure can carry
GuardedUrls == {u \in RemoteUrls : isLocalOrPrivateUrl(u.host)}

\* lines 361-367 and checkUrl up to its await (270-305): the batch is cut,
\* each member's checkUrl runs to the guard's return or to its fetch call
StartBatch ==
    /\ rpc = "loop"
    /\ batchStart < Len(enclosures)
    /\ LET batch == sliceIndexes(Len(enclosures), batchStart,
                                 batchStart + concurrency)
           guarded(k) == enclosures[batch[k]] \in GuardedUrls
       IN /\ probe' = [k \in 1..Len(batch) |->
                         [enc |-> batch[k],
                          st |-> IF guarded(k) THEN "settled" ELSE "inflight",
                          res |-> IF guarded(k) THEN SkippedResult ELSE Pending,
                          first |-> FALSE]]
          /\ fetched' = fetched \o
                SelectSeq(batch, LAMBDA e : enclosures[e] \notin GuardedUrls)
    /\ rpc' = "batch"
    /\ UNCHANGED <<enclosures, concurrency, batchStart, results, remoteDiags, cliDiagnostics>>
    /\ UNCHANGED <<valVars, prxVars, clsVars, sigVars>>

\* one controller shared by the probes of a batch: a timer that fires
\* aborts every fetch still in flight
ProbeTimeoutShared ==
    /\ rpc = "batch"
    /\ \E k \in DOMAIN probe : probe[k].st = "inflight"
    /\ probe' = [k \in DOMAIN probe |->
                   IF probe[k].st = "inflight"
                     THEN [probe[k] EXCEPT !.st = "aborted"] ELSE probe[k]]
    /\ UNCHANGED <<enclosures, concurrency, rpc, batchStart, results, fetched,
                   remoteDiags, cliDiagnostics>>
    /\ UNCHANGED <<valVars, prxVars, clsVars, sigVars>>

\* checkUrl lines 295-296: the timer of one in-flight probe fires and
\* aborts that probe's own controller
ProbeTimeout ==
    /\ rpc = "batch"
    /\ \E k \in DOMAIN probe :
         /\ probe[k].st = "inflight"
         /\ probe' = [probe EXCEPT ![k].st = "aborted"]
    /\ UNCHANGED <<enclosures, concurrency, rpc, batchStart, results, fetched,
                   remoteDiags, cliDiagnostics>>
    /\ UNCHANGED <<valVars, prxVars, clsVars, sigVars>>

\* a checkUrl without its catch: a rejection of fetch() rejects the probe
settleProbeRethrow(p, o) ==
    [enc |-> p.enc, st |-> IF o.error THEN "rejected" ELSE "settled", res |-> o,
     first |-> p.first]

\* checkUrl lines 307-335: both the try and the catch branch return a
\* result, so the probe's promise resolves whatever fetch() did
settleProbe(p, o) ==
    [enc |-> p.enc, st |-> "settled", res |-> o, first |-> p.first]

\* of the order in which the fetches of a batch complete, the probe record
\* keeps which fetch completed first
firstToSettle(pr) == \A j \in DOMAIN pr : ~pr[j].first

\* results pushed as the probes complete (the first to complete first), not
\* in the order of the batch
batchResultsAsCompleted(pr) ==
    LET before(j, k) == (pr[j].first /\ ~pr[k].first) \/ (pr[j].first = pr[k].first /\ j < k)
        place(k) == 1 + Cardinality({j \in DOMAIN pr : before(j, k)})
    IN [i \in 1..Len(pr) |->
          LET k == CHOOSE k \in DOMAIN pr : place(k) = i
          IN [enc |-> pr[k].enc, res |-> pr[k].res]]

\* lines 363-369: Promise.all yields the members' values in the order of
\* the batch, whatever the order in which they resolved
batchResults(pr) ==
    [k \in 1..Len(pr) |-> [enc |-> pr[k].enc, res |-> pr[k].res]]

\* checkUrl lines 307-335: the fetch of one probe settles
ProbeSettle ==
    /\ rpc = "batch"
    /\ \E k \in DOMAIN probe :
         /\ probe[k].st \in {"inflight", "aborted"}
         /\ \E o \in SettleOutcomes(probe[k], enclosures[probe[k].enc].length) :
              probe' = [probe EXCEPT
                          ![k] = [settleProbe(probe[k], o) EXCEPT
                                     !.first = firstToSettle(probe)]]
    /\ UNCHANGED <<enclosures, concurrency, rpc, batchStart, results, fetched,
                   remoteDiags, cliDiagnostics>>
    /\ UNCHANGED <<valVars, prxVars, clsVars, sigVars>>

\* line 361, i += concurrency.  With a negative step the loop variable
\* descends without end; every value from -MaxRewind down is kept as
\* -MaxRewind: with a negative start and a negative step the slice is
\* empty (its end lies before its start) and the loop test stays true,
\* whichever of these values i has
nextStart(i, n) == IF i + n < -MaxRewind THEN -MaxRewind ELSE i + n

\* lines 363-370: Promise.all resolves once every member has resolved, and
\* the results are pushed in batch order; it rejects as soon as a member
\* rejects, and the await then rejects validateRemote's own promise
FinishBatch ==
    /\ rpc = "batch"
    /\ IF \E k \in DOMAIN probe : probe[k].st = "rejected"
         THEN /\ rpc' = "rejected"
              /\ UNCHANGED <<results, batchStart, probe>>
         ELSE /\ \A k \in DOMAIN probe : probe[k].st = "settled"
              /\ results' = results \o batchResults(probe)
              /\ batchStart' = nextStart(batchStart, concurrency)
              /\ probe' = probe
              /\ rpc' = "loop"
    /\ UNCHANGED <<enclosures, concurrency, fetched, remoteDiags, cliDiagnostics>>
    /\ UNCHANGED <<valVars, prxVars, clsVars, sigVars>>

\* lines 372-476
Report ==
    /\ rpc = "loop"
    /\ batchStart >= Len(enclosures)
    /\ remoteDiags' = reportDiagnostics(enclosures, results)
    /\ rpc' = "done"
    /\ UNCHANGED <<enclosures, concurrency, batchStart, probe, results, fetched,
                   cliDiagnostics>>
    /\ UNCHANGED <<valVars, prxVars, clsVars, sigVars>>

\* cli/index.ts line 28: what validate(xml) returned for the document, in
\* its order (severity, then line); enc 0 marks a diagnostic of validate()
CliDiag(id, sev, line) ==
    [id |-> id, severity |-> sev, line |-> line, enc |-> 0, more |-> <<>>]
validateDiagnostics ==
    <<CliDiag("E009", "error", ItemLine(1)),
      CliDiag("W003", "warning", ItemLine(1)),
      CliDiag("I010", "info", EnclosureLine(2))>>

\* cli/index.ts lines 35-58: push(...remoteDiags), then the stable sort by
\* severity and line
mergeAndSort(own, remote) == sortDiagnostics(own \o remote)

\* cli/index.ts lines 31-59, after validateRemote() has resolved
CliMerge ==
    /\ rpc = "done"
    /\ cliDiagnostics' = mergeAndSort(validateDiagnostics, remoteDiags)
    /\ rpc' = "merged"
    /\ UNCHANGED <<enclosures, concurrency, batchStart, probe, results, fetched,
                   remoteDiags>>
    /\ UNCHANGED <<valVars, prxVars, clsVars, sigVars>>

NextRemote ==
    \/ RemoteStart \/ StartBatch \/ ProbeTimeout \/ ProbeSettle \/ FinishBatch
    \/ Report \/ CliMerge

-----------------------------------------------------------------------------
(***************************************************************************)
(* The fetch proxy: onRequestGet (src/functions/api/fetch.ts)              *)
(***************************************************************************)

\* String.prototype.includes(ch)
Includes(s, ch) == \E i \in DOMAIN s : s[i] = ch

\* the answers the DNS-over-HTTPS service can give for a name: its A
\* records in any order, with or without a CNAME record (type 5) in front
ARecord(a) == [type |-> 1, data |-> Dotted(a.w), addr |-> a]
CnameRecord == [type |-> 5, data |-> <<"a", "l", "i", "a", "s", ".", "e", "x", "a", "m", "p", "l", "e", ".">>, addr |-> Addr4(0, 0, 0, 0)]

Orderings(S) ==
    {f \in [1..Cardinality(S) -> S] : \A i, j \in DOMAIN f : i # j => f[i] # f[j]}

DnsJson(hasAnswer, answer) ==
    [kind |-> "json", hasAnswer |-> hasAnswer, answer |-> answer]
DnsFault == [kind |-> "fault", hasAnswer |-> FALSE, answer |-> <<>>]
DnsNotOk == [kind |-> "notOk", hasAnswer |-> FALSE, answer |-> <<>>]
DnsNone == [kind |-> "none", hasAnswer |-> FALSE, answer |-> <<>>]

DnsReplies(h) ==
    {DnsFault, DnsNotOk, DnsJson(FALSE, <<>>), DnsJson(TRUE, <<CnameRecord>>)}
    \cup {DnsJson(TRUE, [i \in DOMAIN f |-> ARecord(f[i])]) :
             f \in Orderings(h.addrs) \ {<<>>}}
    \cup {DnsJson(TRUE, <<CnameRecord>> \o [i \in DOMAIN f |-> ARecord(f[i])]) :
             f \in Orderings(h.addrs) \ {<<>>}}

\* resolveHostname, lines 80-109
resolveHostname(reply) ==
    IF reply.kind = "fault" THEN [ips |-> <<>>, error |-> TRUE]
    ELSE IF reply.kind = "notOk" THEN [ips |-> <<>>, error |-> TRUE]
    ELSE [ips |-> IF reply.hasAnswer
                    THEN LET as == SelectSeq(reply.answer, LAMBDA r : r.type = 1)
                         IN [i \in DOMAIN as |-> as[i].data]
                    ELSE <<>>,
          error |-> FALSE]

\* resolved.error alone: an answer without addresses is not seen
cannotVerifyOnErrorOnly(resolved) == resolved.error

\* line 176: !resolved || resolved.ips.length === 0
cannotVerify(resolved) == Len(resolved.ips) = 0

\* only the first address is looked at
firstIsPrivateIP(ips) == ips # <<>> /\ isPrivateIP(ips[1])

\* line 184: resolved.ips.find((ip) => isPrivateIP(ip))
anyPrivateIP(ips) == \E i \in DOMAIN ips : isPrivateIP(ips[i])

Response(status, error) == [status |-> status, error |-> error]
NoResponse == Response(0, "")

\* what the fetch of the target can end in, lines 195-289
TargetOutcomes ==
    { Response(200, ""), Response(502, "fetchFailed"), Response(413, "tooLarge"),
      Response(415, "contentType"), Response(415, "notXml") }

Request(kind, protocol, h) == [kind |-> kind, protocol |-> protocol, host |-> h]
NoRequest == Request("none", "", H_publicName)

ProxyHosts ==
    { H_localhost, H_private10, H_private172, H_private192, H_loopback4,
      H_metadata, H_public4, H_loopback6, H_linklocal6, H_uniquelocal6,
      H_mapped6, H_public6, H_internalName, H_mixedName, H_publicName,
      H_unresolvable }

ProxyRequests ==
    { Request("missing", "", H_publicName), Request("invalid", "", H_publicName),
      Request("url", "ftp:", H_publicName) }
    \cup { Request("url", p, h) : p \in {"http:", "https:"}, h \in ProxyHosts }

PrxIdle ==
    /\ req = NoRequest
    /\ ppc = "idle"
    /\ dns = DnsNone
    /\ dnsQueried = FALSE
    /\ targetFetched = FALSE
    /\ followed = <<>>
    /\ response = NoResponse

InitProxyVars ==
    /\ req \in ProxyRequests
    /\ ppc = "start"
    /\ dns = DnsNone
    /\ dnsQueried = FALSE
    /\ targetFetched = FALSE
    /\ followed = <<>>
    /\ response = NoResponse

\* lines 134-174 and 195-196: from the request to the first await, which is
\* the DNS query for a name, the fetch of the target for an accepted
\* literal, or the return of a 400
ProxyCheck ==
    /\ ppc = "start"
    /\ LET hostname == hostnameOf(req.host)
           reject(e) == /\ response' = Response(400, e)
                        /\ ppc' = "done"
                        /\ UNCHANGED <<dnsQueried, targetFetched>>
       IN IF req.kind = "missing" THEN reject("missing")
          ELSE IF req.kind = "invalid" THEN reject("invalid")
          ELSE IF req.protocol \notin {"http:", "https:"} THEN reject("scheme")
          ELSE IF hostname = STR_localhost \/ hostname = STR_localhost_localdomain
            THEN reject("private")
          ELSE IF IsDigitsAndDots(hostname) \/ Includes(hostname, ":")
            THEN IF isPrivateIP(hostname) THEN reject("private")
                 ELSE /\ targetFetched' = TRUE
                      /\ ppc' = "fetch"
                      /\ UNCHANGED <<dnsQueried, response>>
          ELSE /\ dnsQueried' = TRUE
               /\ ppc' = "dns"
               /\ UNCHANGED <<targetFetched, response>>
    /\ UNCHANGED <<req, dns, followed>>
    /\ UNCHANGED <<valVars, remVars, clsVars, sigVars>>

\* lines 174-196: the DNS answer arrives
DnsReply ==
    /\ ppc = "dns"
    /\ \E reply \in DnsReplies(req.host) :
         LET resolved == resolveHostname(reply)
             ips == resolved.ips
         IN /\ dns' = reply
            /\ IF cannotVerify(resolved)
                 THEN /\ response' = Response(400, IF resolved.error THEN "dnsFailed"
                                                   ELSE "unresolved")
                      /\ ppc' = "done"
                      /\ UNCHANGED targetFetched
               ELSE IF anyPrivateIP(ips)
                 THEN /\ response' = Response(400, "resolvesPrivate")
                      /\ ppc' = "done"
                      /\ UNCHANGED targetFetched
               ELSE /\ targetFetched' = TRUE
                    /\ ppc' = "fetch"
                    /\ UNCHANGED response
    /\ UNCHANGED <<req, dnsQueried, followed>>
    /\ UNCHANGED <<valVars, remVars, clsVars, sigVars>>

\* the hosts the Location of a redirect answer can name
RedirectHosts == {H_metadata, H_internalName, H_public4, H_publicName}

\* the redirects one fetch is let follow here (the runtime stops at 20)
MaxRedirects == 2

\* lines 196-205: fetch(url, {headers, cf}) is given no redirect option,
\* so that it follows a redirect answer: it requests the host of the
\* Location, which nothing has been asked about
FollowRedirect ==
    /\ ppc = "fetch"
    /\ Len(followed) < MaxRedirects
    /\ \E h \in RedirectHosts : followed' = Append(followed, h)
    /\ UNCHANGED <<req, ppc, dns, dnsQueried, targetFetched, response>>
    /\ UNCHANGED <<valVars, remVars, clsVars, sigVars>>

\* lines 207-289: the last host requested answers
TargetReply ==
    /\ ppc = "fetch"
    /\ \E o \in TargetOutcomes : response' = o
    /\ ppc' = "done"
    /\ UNCHANGED <<req, dns, dnsQueried, targetFetched, followed>>
    /\ UNCHANGED <<valVars, remVars, clsVars, sigVars>>

NextProxy == ProxyCheck \/ DnsReply \/ FollowRedirect \/ TargetReply

-----------------------------------------------------------------------------
(***************************************************************************)
(* isPrivateIP called on its own: the text of an address in, the verdict   *)
(* out.  The IPv4 inputs are the dotted quads over the octets at and       *)
(* around every boundary the function tests.                               *)
(***************************************************************************)

OctetsA ==
    { 0, 1, 9, 10, 11, 99, 100, 101, 126, 127, 128, 168, 169, 170, 171, 172,
      173, 191, 192, 193, 197, 198, 199, 202, 203, 204, 223, 224, 239, 240,
      255, 256 }
OctetsB ==
    { 0, 1, 15, 16, 17, 18, 19, 20, 31, 32, 50, 51, 52, 63, 64, 127, 128,
      167, 168, 169, 253, 254, 255, 256 }
OctetsC == { 0, 1, 2, 3, 99, 100, 101, 112, 113, 114, 255, 256 }
OctetsD == { 0, 255, 256 }

TextInput(text, v, w) == [text |-> text, v |-> v, w |-> w]

Ipv4Inputs ==
    { TextInput(Dotted(<<a, b, c, d>>), 4, <<a, b, c, d>>) :
        a \in OctetsA, b \in OctetsB, c \in OctetsC, d \in OctetsD }

\* IPv6 texts as a caller holding a bare address passes them
Ipv6Inputs ==
    { TextInput(STR_v6loopback, 6, <<0, 0, 0, 0, 0, 0, 0, 1>>),
      TextInput(<<"f", "e", "8", "0", ":", ":", "1">>, 6, <<65152, 0, 0, 0, 0, 0, 0, 1>>),
      TextInput(<<"F", "E", "8", "0", ":", ":", "1">>, 6, <<65152, 0, 0, 0, 0, 0, 0, 1>>),
      TextInput(<<"f", "e", "b", "f", ":", ":", "1">>, 6, <<65215, 0, 0, 0, 0, 0, 0, 1>>),
      TextInput(<<"f", "c", "0", "0", ":", ":", "1">>, 6, <<64512, 0, 0, 0, 0, 0, 0, 1>>),
      TextInput(<<"f", "d", "1", "2", ":", ":", "1">>, 6, <<64786, 0, 0, 0, 0, 0, 0, 1>>),
      TextInput(<<":", ":", "f", "f", "f", "f", ":", "1", "0", ".", "0", ".", "0", ".", "1">>, 6, <<0, 0, 0, 0, 0, 65535, 2560, 1>>),
      TextInput(<<":", ":", "f", "f", "f", "f", ":", "8", ".", "8", ".", "8", ".", "8">>, 6, <<0, 0, 0, 0, 0, 65535, 2056, 2056>>),
      TextInput(<<"2", "6", "0", "6", ":", "4", "7", "0", "0", ":", ":", "1", "1", "1", "1">>, 6, <<9734, 18176, 0, 0, 0, 0, 0, 4369>>) }

NoInput == TextInput(<<>>, 0, <<>>)

ClsIdle == ipIn = NoInput /\ ipOut = "idle"

InitClassifyVars == ipIn \in Ipv4Inputs \cup Ipv6Inputs /\ ipOut = "none"

Classify ==
    /\ ipOut = "none"
    /\ ipOut' = IF isPrivateIP(ipIn.text) THEN "private" ELSE "public"
    /\ UNCHANGED ipIn
    /\ UNCHANGED <<valVars, remVars, prxVars, sigVars>>

NextClassify == Classify

-----------------------------------------------------------------------------
(***************************************************************************)
(* Signature attributes: validateSignature and the E031 checks of          *)
(* validateEnclosure (src/src/core/rules/enclosure.ts)                     *)
(*                                                                         *)
(* The code looks at a signature text only through four classes of         *)
(* characters, so a text is written as its runs: n characters of the       *)
(* base64 alphabet ("data"), n "=" ("pad"), n white-space characters       *)
(* ("space"), n characters of any other kind ("bad").                      *)
(***************************************************************************)

Run(kind, n) == [kind |-> kind, n |-> n]

\* the text with its empty runs left out
Compact(runs) == SelectSeq(runs, LAMBDA r : r.n > 0)

RunsLength(runs) == SumSeq([i \in DOMAIN runs |-> runs[i].n])

\* sig.replace(/\s/g, "")
stripWhitespace(runs) == SelectSeq(runs, LAMBDA r : r.kind # "space")

\* /^[A-Za-z0-9+/]*=*$/.test(text)
base64Pattern(runs) ==
    \E k \in 0..Len(runs) :
       /\ \A i \in 1..k : runs[i].kind = "data"
       /\ \A i \in (k + 1)..Len(runs) : runs[i].kind = "pad"

\* (text.match(/=+$/) || [""])[0].length
trailingPadding(runs) ==
    LET last == {k \in 0..Len(runs) : \A i \in (k + 1)..Len(runs) : runs[i].kind = "pad"}
        k0 == CHOOSE k \in last : \A j \in last : k <= j
    IN RunsLength(SubSeq(runs, k0 + 1, Len(runs)))

SigValid == [valid |-> TRUE, reason |-> "none"]
SigInvalid(reason) == [valid |-> FALSE, reason |-> reason]

\* lines 27-70
validateSignature(sig, type) ==
    LET cleanSig == stripWhitespace(sig)
        paddingCount == trailingPadding(cleanSig)
        decodedBytes == (RunsLength(cleanSig) * 3) \div 4 - paddingCount
    IN IF ~base64Pattern(cleanSig) THEN SigInvalid("characters")
       ELSE IF RunsLength(cleanSig) % 4 # 0 THEN SigInvalid("padding")
       ELSE IF type = "ed"
         THEN IF decodedBytes # 64 THEN SigInvalid("length") ELSE SigValid
         ELSE IF decodedBytes < 40 \/ decodedBytes > 150
                THEN SigInvalid("length") ELSE SigValid

\* lines 331-345: "if (edSig)" is false for the empty string
edSignatureDiags(edSig) ==
    IF edSig # <<>> /\ ~validateSignature(edSig, "ed").valid
      THEN <<Diag("E031", "error", EnclosureLine(1))>> ELSE <<>>

\* the attribute values tried: a first line of base64 characters, a line
\* wrap, a second line, the padding, trailing white space; and texts
\* with a character outside the alphabet
MaxWrap == 2
MaxPad == 5
FirstLineLengths == {0, 44}
SecondLineLengths == 40..44

SigTexts ==
    { Compact(<<Run("data", a), Run("space", w), Run("data", b),
                Run("pad", p), Run("space", t)>>) :
        a \in FirstLineLengths, w \in 0..MaxWrap, b \in SecondLineLengths,
        p \in 0..MaxPad, t \in 0..1 }
    \cup { Compact(<<Run("data", 44), Run("bad", 1), Run("data", 41),
                     Run("pad", p)>>) : p \in 0..MaxPad }
    \cup { <<>>, <<Run("space", 1)>> }

SigIdle == sigPc = "idle" /\ sigIn = <<>> /\ sigOut = <<>>

InitSignatureVars == sigPc = "check" /\ sigIn \in SigTexts /\ sigOut = <<>>

\* validateEnclosure lines 331-345 for one enclosure
CheckEdSignature ==
    /\ sigPc = "check"
    /\ sigOut' = sigOut \o edSignatureDiags(sigIn)
    /\ sigPc' = "done"
    /\ UNCHANGED sigIn
    /\ UNCHANGED <<valVars, remVars, prxVars, clsVars>>

NextSignature == CheckEdSignature

-----------------------------------------------------------------------------
(***************************************************************************)
(* The specifications: one per entry point, the other entry points idle.   *)
(***************************************************************************)

InitValidate == InitValidateVars /\ RemIdle /\ PrxIdle /\ ClsIdle /\ SigIdle
InitRemote == ValIdle /\ InitRemoteVars /\ PrxIdle /\ ClsIdle /\ SigIdle
InitProxy == ValIdle /\ RemIdle /\ InitProxyVars /\ ClsIdle /\ SigIdle
InitClassify == ValIdle /\ RemIdle /\ PrxIdle /\ InitClassifyVars /\ SigIdle
InitOrder ==
    /\ xml \in OrderDocs /\ vpc = "parse" /\ diagnostics = <<>>
    /\ ruleIdx = 0 /\ ran = {} /\ result = NoResult
    /\ RemIdle /\ PrxIdle /\ ClsIdle /\ SigIdle

InitVersion ==
    /\ xml \in VersionDocs /\ vpc = "parse" /\ diagnostics = <<>>
    /\ ruleIdx = 0 /\ ran = {} /\ result = NoResult
    /\ RemIdle /\ PrxIdle /\ ClsIdle /\ SigIdle
InitSignature == ValIdle /\ RemIdle /\ PrxIdle /\ ClsIdle /\ InitSignatureVars

SpecValidate == InitValidate /\ [][NextValidate]_vars
SpecRemote == InitRemote /\ [][NextRemote]_vars

\* the fetch of a probe whose controller has aborted rejects
AbortedFetchRejects ==
    /\ ProbeSettle
    /\ \E k \in DOMAIN probe : probe[k].st = "aborted" /\ probe'[k].st = "settled"

\* What the runtime guarantees of a run of validateRemote(): a
\* continuation that is ready is run (the synchronous stretches and the
\* awaits that have resolved), the timer of a probe in flight fires
\* (setTimeout, remote.ts 296), and an aborted fetch rejects.  That the
\* network answers a fetch is not assumed.  One of these steps is
\* possible in every state in which the call is still under way.
RuntimeStep ==
    \/ RemoteStart \/ StartBatch \/ FinishBatch \/ Report
    \/ ProbeTimeout \/ AbortedFetchRejects

FairRemote == WF_vars(RuntimeStep)

SpecRemoteLive == InitRemote /\ [][NextRemote]_vars /\ FairRemote
SpecProxy == InitProxy /\ [][NextProxy]_vars
SpecClassify == InitClassify /\ [][NextClassify]_vars
SpecSignature == InitSignature /\ [][NextSignature]_vars
SpecVersion == InitVersion /\ [][NextValidate]_vars
SpecOrder == InitOrder /\ [][NextValidate]_vars

Init ==
    \/ InitValidate \/ InitRemote \/ InitProxy \/ InitClassify
    \/ InitSignature \/ InitVersion \/ InitOrder
Next == NextValidate \/ NextRemote \/ NextProxy \/ NextClassify \/ NextSignature
Spec == Init /\ [][Next]_vars

-----------------------------------------------------------------------------
(***************************************************************************)
(* Properties of validate()                                                *)
(***************************************************************************)

IndexesOfSeverity(diags, sev) == {i \in DOMAIN diags : diags[i].severity = sev}

IdsOf(diags) == {diags[i].id : i \in DOMAIN diags}

\* C1: the result validate() returns has valid = TRUE exactly when
\* errorCount = 0, and errorCount, warningCount and infoCount are the
\* numbers of diagnostics of that severity in the returned sequence.
C1_CountsMatchDiagnostics ==
    vpc = "done" =>
      /\ result.valid <=> (result.errorCount = 0)
      /\ result.errorCount =
            Cardinality(IndexesOfSeverity(result.diagnostics, "error"))
      /\ result.warningCount =
            Cardinality(IndexesOfSeverity(result.diagnostics, "warning"))
      /\ result.infoCount =
            Cardinality(IndexesOfSeverity(result.diagnostics, "info"))

\* a returned result with diagnostics of all three severities, one of them
\* standing for several occurrences
C1_Witness ==
    /\ vpc = "done"
    /\ result.errorCount > 0 /\ result.warningCount > 0 /\ result.infoCount > 0
    /\ \E i \in DOMAIN result.diagnostics : result.diagnostics[i].more # <<>>

\* C8: for a document with no root element, or with a root that is not
\* rss, validate() returns valid = FALSE and the diagnostics are exactly
\* the structural ones of that case (E001 of the parser for a missing
\* root; E002, beside the parser's own E001 if the text is also malformed,
\* for a wrong root), with no diagnostic of any later rule.
C8_OnlyStructuralDiagnostics ==
    (vpc = "done" /\ xml.root \in {"none", "other"}) =>
      /\ result.valid = FALSE
      /\ IF xml.root = "none"
           THEN IdsOf(result.diagnostics) = {"E001"}
           ELSE /\ "E002" \in IdsOf(result.diagnostics)
                /\ IdsOf(result.diagnostics) \subseteq {"E001", "E002"}

\* a well-formed document with a root other than rss and a declaration
\* without encoding comes back with W039 beside E002
C8_Witness ==
    /\ vpc = "done"
    /\ xml.root = "other" /\ xml.parseErrors = 0 /\ xml.xmlDecl = "noEncoding"
    /\ IdsOf(result.diagnostics) = {"E002", "W039"}

\* what does hold in that case: the result is invalid, and no rule of
\* allRules adds anything beyond E002
C8_NoRuleBeyondStructure ==
    (vpc = "done" /\ xml.root \in {"none", "other"}) =>
      /\ result.valid = FALSE
      /\ IdsOf(result.diagnostics) \subseteq {"E001", "E002", "W038", "W039"}

-----------------------------------------------------------------------------
(***************************************************************************)
(* Address ranges, by arithmetic on the address itself (not on its text).  *)
(* An IPv4 address is taken as two 16-bit halves; a range is its base      *)
(* address and its prefix length.                                          *)
(***************************************************************************)

Hi(w) == w[1] * 256 + w[2]
Lo(w) == w[3] * 256 + w[4]

InCidr4(w, base, len) ==
    IF len <= 16
      THEN Hi(w) \div 2^(16 - len) = Hi(base) \div 2^(16 - len)
      ELSE Hi(w) = Hi(base) /\ Lo(w) \div 2^(32 - len) = Lo(base) \div 2^(32 - len)

\* the ranges the proxy's guard is to reject
RejectedRanges4 ==
    { <<<<0, 0, 0, 0>>, 8>>, <<<<10, 0, 0, 0>>, 8>>, <<<<100, 64, 0, 0>>, 10>>,
      <<<<127, 0, 0, 0>>, 8>>, <<<<169, 254, 0, 0>>, 16>>,
      <<<<172, 16, 0, 0>>, 12>>, <<<<192, 0, 0, 0>>, 24>>,
      <<<<192, 0, 2, 0>>, 24>>, <<<<192, 168, 0, 0>>, 16>>,
      <<<<198, 18, 0, 0>>, 15>>, <<<<198, 51, 100, 0>>, 24>>,
      <<<<203, 0, 113, 0>>, 24>>, <<<<224, 0, 0, 0>>, 4>>,
      <<<<240, 0, 0, 0>>, 4>> }

\* private (RFC 1918), loopback and link-local, which holds the metadata
\* address 169.254.169.254
LocalRanges4 ==
    { <<<<10, 0, 0, 0>>, 8>>, <<<<127, 0, 0, 0>>, 8>>, <<<<169, 254, 0, 0>>, 16>>,
      <<<<172, 16, 0, 0>>, 12>>, <<<<192, 168, 0, 0>>, 16>> }

InRanges4(w, ranges) == \E r \in ranges : InCidr4(w, r[1], r[2])

OctetOverflow(w) == \E i \in 1..4 : w[i] > 255

IsLoopback6(g) == g = <<0, 0, 0, 0, 0, 0, 0, 1>>
IsLinkLocal6(g) == g[1] \div 64 = 65152 \div 64
IsUniqueLocal6(g) == g[1] \div 512 = 64512 \div 512
IsV4Mapped6(g) == (\A i \in 1..5 : g[i] = 0) /\ g[6] = 65535
Embedded4(g) == <<g[7] \div 256, g[7] % 256, g[8] \div 256, g[8] % 256>>

\* an address the proxy's guard is to reject
IsRejectedAddr(a) ==
    IF a.v = 4 THEN InRanges4(a.w, RejectedRanges4)
    ELSE \/ IsLoopback6(a.w) \/ IsLinkLocal6(a.w) \/ IsUniqueLocal6(a.w)
         \/ IsV4Mapped6(a.w) /\ InRanges4(Embedded4(a.w), RejectedRanges4)

\* an address that is private, loopback or link-local
IsLocalAddr(a) ==
    IF a.v = 4 THEN InRanges4(a.w, LocalRanges4)
    ELSE IsLoopback6(a.w) \/ IsLinkLocal6(a.w)

\* an IP literal that is such an address, or a name that resolves to such
\* addresses only
IsLocalHost(h) == h.addrs # {} /\ \A a \in h.addrs : IsLocalAddr(a)

-----------------------------------------------------------------------------
(***************************************************************************)
(* Properties of validateRemote                                            *)
(***************************************************************************)

\* the ids reported for entry e of the enclosures, in order
RemoteIdsFor(e) ==
    LET ds == SelectSeq(remoteDiags, LAMBDA d : d.enc = e)
    IN [i \in DOMAIN ds |-> ds[i].id]

WasFetched(e) == \E k \in DOMAIN fetched : fetched[k] = e

InFlight == Cardinality({k \in DOMAIN probe : probe[k].st = "inflight"})

\* C2: a URL whose host is a private, loopback, link-local or metadata
\* IP literal, or a name resolving only to such addresses, is never
\* probed and gets no E027, E028 or W022.
C2_LocalHostsNeverProbed ==
    \A e \in DOMAIN enclosures :
       IsLocalHost(enclosures[e].host) =>
          /\ ~WasFetched(e)
          /\ rpc = "done" =>
                \A i \in DOMAIN RemoteIdsFor(e) :
                   RemoteIdsFor(e)[i] \notin {"E027", "E028", "W022"}

\* the link-local literal [fe80::1] is probed and reported E027
C2_Witness ==
    /\ rpc = "done"
    /\ \E e \in DOMAIN enclosures :
          /\ enclosures[e].host = H_linklocal6
          /\ WasFetched(e)
          /\ RemoteIdsFor(e) = <<"E027">>

\* what the guard does cover: IPv4 literals of those ranges, localhost
\* and the bracketed ::1
C2_LiteralsCovered ==
    \A e \in DOMAIN enclosures :
       (enclosures[e].host.kind = "v4" /\ IsLocalHost(enclosures[e].host)) =>
          ~WasFetched(e)

\* the URLs isLocalOrPrivateUrl returns true for
RejectedByGuard == {u \in RemoteUrls : isLocalOrPrivateUrl(u.host)}

\* C3: a URL the guard rejects is never fetched, and the run reports
\* exactly one W023 and nothing else for it.
C3_RejectedUrlOnlyW023 ==
    \A e \in DOMAIN enclosures :
       enclosures[e] \in RejectedByGuard =>
          /\ ~WasFetched(e)
          /\ rpc = "done" => RemoteIdsFor(e) = <<"W023">>

\* a finished run over http://10.0.0.5 next to a probed URL
C3_Witness ==
    /\ rpc = "done"
    /\ \E e, f \in DOMAIN enclosures :
          /\ enclosures[e].host = H_private10 /\ enclosures[e].isHttp
          /\ RemoteIdsFor(e) = <<"W023">>
          /\ WasFetched(f)

\* C10: at every moment of a run at most N probes are in flight, N the
\* concurrency option (a limit below zero is read as zero: no run has
\* fewer than zero probes in flight).
C10_AtMostNInFlight == InFlight <= Max(concurrency, 0)

\* concurrency -1: slice(0, -1) cuts a batch of all but the last URL
C10_Witness == concurrency = -1 /\ InFlight = 2

\* for N >= 1 the bound holds, and a batch of N in flight happens
C10_BoundForPositiveN == concurrency >= 1 => InFlight <= concurrency

-----------------------------------------------------------------------------
(***************************************************************************)
(* Properties of the fetch proxy's guard                                   *)
(***************************************************************************)

IsNameRequest ==
    /\ req.kind = "url"
    /\ req.protocol \in {"http:", "https:"}
    /\ req.host.kind = "name"

\* the A records of the answer received
AnswerAddrs ==
    {dns.answer[i].addr : i \in {j \in DOMAIN dns.answer : dns.answer[j].type = 1}}

\* C4: for a host that is a name, the guard rejects the URL if any
\* address the name resolves to is private/internal, and the target is
\* fetched only when every resolved address is public.
C4_AnyPrivateAddressRejects ==
    IsNameRequest =>
      /\ (dns.kind = "json" /\ \E a \in AnswerAddrs : IsRejectedAddr(a)) =>
            /\ ~targetFetched
            /\ ppc = "done" /\ response.status = 400
      /\ targetFetched =>
            /\ dns.kind = "json"
            /\ AnswerAddrs # {}
            /\ \A a \in AnswerAddrs : ~IsRejectedAddr(a)

\* a name with a public first and a private second address is rejected
C4_Witness ==
    /\ IsNameRequest /\ ppc = "done"
    /\ dns.kind = "json" /\ Len(dns.answer) = 2
    /\ ~IsRejectedAddr(dns.answer[1].addr) /\ IsRejectedAddr(dns.answer[2].addr)
    /\ response = Response(400, "resolvesPrivate") /\ ~targetFetched

\* C5: when the DNS resolution fails or yields no address, the proxy
\* answers with an error and never fetches the target.
C5_UnresolvedIsBlocked ==
    (IsNameRequest /\ ppc \notin {"start", "dns"} /\ dnsQueried
       /\ (dns.kind \in {"fault", "notOk"} \/ AnswerAddrs = {})) =>
      /\ ~targetFetched
      /\ ppc = "done" /\ response.status = 400

\* an answer holding only a CNAME record ends in a 400, the target unfetched
C5_Witness ==
    /\ IsNameRequest /\ ppc = "done" /\ ~targetFetched
    /\ dns.kind = "json" /\ dns.hasAnswer /\ AnswerAddrs = {}
    /\ response = Response(400, "unresolved")

\* C6: a URL whose host is an IPv6 literal that is loopback, link-local,
\* unique-local or IPv4-mapped onto a rejected IPv4 address is rejected,
\* and without a DNS query.
C6_InternalIpv6LiteralRejected ==
    (/\ req.kind = "url" /\ req.protocol \in {"http:", "https:"}
     /\ req.host.kind = "v6"
     /\ \E a \in req.host.addrs : IsRejectedAddr(a)
     /\ ppc # "start") =>
      /\ ~targetFetched
      /\ ~dnsQueried
      /\ ppc = "done" /\ response.status = 400

\* http://[::1]/ passes the guard and the target is fetched
C6_Witness ==
    /\ req.kind = "url" /\ req.host = H_loopback6
    /\ targetFetched /\ ppc = "done" /\ response.status = 200

\* what holds of an IPv6 literal: it is never sent to DNS
C6_Ipv6LiteralNeverResolved == req.host.kind = "v6" => ~dnsQueried

-----------------------------------------------------------------------------
(***************************************************************************)
(* Properties of isPrivateIP                                               *)
(***************************************************************************)

\* C7: a dotted quad is classified private exactly when it lies in one
\* of the fourteen listed ranges or has an octet above 255; every other
\* one, those next to each range included, is classified public.
C7_Ipv4RangesExact ==
    (ipOut # "none" /\ ipIn.v = 4) =>
      (ipOut = "private" <=>
          (OctetOverflow(ipIn.w) \/ InRanges4(ipIn.w, RejectedRanges4)))

\* 100.127.255.255, the last address of 100.64.0.0/10, comes out private
C7_Witness ==
    ipIn.v = 4 /\ ipIn.w = <<100, 127, 255, 255>> /\ ipOut = "private"

\* 100.128.0.0, the first address after it, comes out public
C7_JustOutside ==
    ipIn.v = 4 /\ ipIn.w = <<100, 128, 0, 0>> /\ ipOut = "public"

-----------------------------------------------------------------------------
(***************************************************************************)
(* Properties of validateRemote: isolation of failures                     *)
(***************************************************************************)

\* the entries the guard lets through
Eligible(e) == enclosures[e] \notin RejectedByGuard

\* the probes of the current batch that have not settled
Outstanding == Cardinality({k \in DOMAIN probe : probe[k].st # "settled"})

IsFault(res) == res.error \/ (res.status # 0 /\ (res.status < 200 \/ res.status >= 300))

\* C11: the failure of one probe neither aborts nor delays the probing of
\* any other URL: no URL is left unstarted, with a slot of the limit
\* free, while the only probes still outstanding are ones that have timed
\* out.
C11_NoProbeWaitsOnFailing ==
    \A e \in DOMAIN enclosures :
       (Eligible(e) /\ ~WasFetched(e)) =>
          ~(/\ rpc = "batch"
            /\ Outstanding >= 1 /\ Outstanding < concurrency
            /\ \A k \in DOMAIN probe :
                  probe[k].st # "settled" => probe[k].st = "aborted")

\* concurrency 2, three URLs: the second probe has answered 200, the first
\* has timed out, and the third URL has not been started
C11_Witness ==
    /\ concurrency = 2 /\ Len(enclosures) = 3 /\ rpc = "batch"
    /\ Len(probe) = 2
    /\ probe[1].st = "aborted"
    /\ probe[2].st = "settled" /\ probe[2].res.status = 200
    /\ Eligible(3) /\ ~WasFetched(3)

\* what holds: a failure aborts nothing.  A run that has recorded a
\* failed probe still returns, and then every URL the guard lets through
\* has been fetched once
C11_FailureAbortsNothing ==
    rpc = "done" =>
       \A e \in DOMAIN enclosures :
          Eligible(e) => Cardinality({k \in DOMAIN fetched : fetched[k] = e}) = 1

\* and the members of one batch are started together, before any settles
C11_BatchStartsTogether ==
    rpc = "batch" => \A k \in DOMAIN probe : Eligible(probe[k].enc) => WasFetched(probe[k].enc)

-----------------------------------------------------------------------------
(***************************************************************************)
(* Properties of validateRemote: faults become diagnostics                 *)
(***************************************************************************)

\* the E027 diagnostics reported for entry e at the line of its element
E027At(e) ==
    {i \in DOMAIN remoteDiags :
        /\ remoteDiags[i].id = "E027" /\ remoteDiags[i].severity = "error"
        /\ remoteDiags[i].enc = e /\ remoteDiags[i].line = RemoteElementLine(e)}

\* C12: every probe fault (rejected fetch, timeout, status outside 2xx)
\* becomes one E027 at the element of its URL, and validateRemote's
\* promise never rejects.
C12_FaultsBecomeE027 ==
    /\ rpc # "rejected"
    /\ rpc = "done" =>
          \A i \in DOMAIN results :
             IsFault(results[i].res) => Cardinality(E027At(results[i].enc)) = 1

\* a returned run in which one probe was rejected or timed out and
\* another answered 404, each reported E027
C12_Witness ==
    /\ rpc = "done"
    /\ \E i, j \in DOMAIN results :
          /\ results[i].res.error /\ results[j].res.status = 404
          /\ Cardinality(E027At(results[i].enc)) = 1
          /\ Cardinality(E027At(results[j].enc)) = 1

-----------------------------------------------------------------------------
(***************************************************************************)
(* Properties of the merged report: independence of completion order       *)
(***************************************************************************)

\* the outcome of the probe of entry e, read off the results whatever
\* their order
OutcomeOf(e) ==
    (CHOOSE i \in DOMAIN results : results[i].enc = e)

\* the report that depends on the document and the per-URL outcomes alone:
\* the entries taken in extraction order, merged and sorted
ReportInExtractionOrder ==
    mergeAndSort(validateDiagnostics,
                 reportDiagnostics(enclosures,
                     [e \in 1..Len(enclosures) |->
                         [enc |-> e, res |-> results[OutcomeOf(e)].res]]))

\* C13: for a fixed document and fixed per-URL outcomes, the diagnostic
\* sequence after merging the probe diagnostics and re-sorting by severity
\* and line is the same whatever the order in which the probes completed.
C13_CompletionOrderIrrelevant ==
    (rpc = "merged" /\ concurrency >= 1) =>
        cliDiagnostics = ReportInExtractionOrder

\* a merged report of a run whose last batch completed out of order: the
\* second probe's fetch settled before the first's, both reported on the
\* same line with the same severity
C13_Witness ==
    /\ rpc = "merged" /\ concurrency >= 2
    /\ Len(probe) >= 2 /\ probe[1].enc = 1 /\ probe[2].enc = 2
    /\ probe[2].first /\ ~probe[1].res.skipped
    /\ \E i, j \in DOMAIN cliDiagnostics :
          /\ i < j
          /\ cliDiagnostics[i].enc = 1 /\ cliDiagnostics[j].enc = 2
          /\ cliDiagnostics[i].severity = cliDiagnostics[j].severity
          /\ cliDiagnostics[i].line = cliDiagnostics[j].line

-----------------------------------------------------------------------------
(***************************************************************************)
(* Properties of validate(): consolidation and order                       *)
(***************************************************************************)

\* the returned diagnostics carrying the id
ReturnedWithId(id) ==
    {i \in DOMAIN result.diagnostics : result.diagnostics[i].id = id}

\* the first diagnostic with the id among those the rules emitted
FirstEmitted(id) ==
    diagnostics[CHOOSE i \in GroupOf(diagnostics, id) :
                   \A j \in GroupOf(diagnostics, id) : i <= j]

\* C14: the emitted diagnostics are grouped by id; a group of more than
\* one comes back as its first member, the message suffixed with the
\* number of further occurrences; a group of one comes back unchanged;
\* the result holds at most one diagnostic per id.
C14_OneDiagnosticPerId ==
    vpc = "done" =>
      /\ IdsOf(result.diagnostics) = IdsOf(diagnostics)
      /\ \A id \in IdsOf(diagnostics) :
            LET count == Cardinality(GroupOf(diagnostics, id))
            IN /\ Cardinality(ReturnedWithId(id)) = 1
               /\ \A i \in ReturnedWithId(id) :
                     result.diagnostics[i] =
                        IF count = 1 THEN FirstEmitted(id)
                        ELSE [FirstEmitted(id) EXCEPT !.more = <<count - 1>>]

\* a result in which two emitted diagnostics of one id, on different
\* lines, came back as the first of them with one more counted, beside an
\* id that was emitted once
C14_Witness ==
    /\ vpc = "done"
    /\ \E id \in IdsOf(diagnostics) :
          /\ Cardinality(GroupOf(diagnostics, id)) = 2
          /\ \E j \in GroupOf(diagnostics, id) :
                diagnostics[j].line # FirstEmitted(id).line
          /\ \E i \in ReturnedWithId(id) : result.diagnostics[i].more = <<1>>
    /\ \E id \in IdsOf(diagnostics) :
          /\ Cardinality(GroupOf(diagnostics, id)) = 1
          /\ \E i \in ReturnedWithId(id) : result.diagnostics[i].more = <<>>

\* the key the returned order is claimed to follow; every diagnostic the
\* parser and the rules emit carries the line of its element, so the
\* comparator's fallback to 0 for a missing line has no case here
OrderKey(d) == <<severityOrder(d.severity), d.line>>

KeyLeq(k1, k2) == k1[1] < k2[1] \/ (k1[1] = k2[1] /\ k1[2] <= k2[2])

\* C15: the diagnostics validate() returns are ordered by severity
\* (errors, then warnings, then infos) and, within a severity, by
\* ascending line.
C15_SortedBySeverityThenLine ==
    vpc = "done" =>
      \A i, j \in DOMAIN result.diagnostics :
         i < j => KeyLeq(OrderKey(result.diagnostics[i]),
                         OrderKey(result.diagnostics[j]))

\* a result with an error, two warnings on different lines and an info,
\* whose emission order was another one: a warning was emitted before an
\* error, and the lower of two warnings after the higher
C15_Witness ==
    /\ vpc = "done"
    /\ result.errorCount > 0 /\ result.warningCount >= 2 /\ result.infoCount > 0
    /\ \E i, j \in DOMAIN diagnostics :
          /\ i < j
          /\ diagnostics[i].severity = "warning" /\ diagnostics[j].severity = "error"
    /\ \E i, j \in DOMAIN diagnostics :
          /\ i < j
          /\ diagnostics[i].severity = "warning" /\ diagnostics[j].severity = "warning"
          /\ diagnostics[i].id # diagnostics[j].id
          /\ diagnostics[i].line > diagnostics[j].line

-----------------------------------------------------------------------------
(***************************************************************************)
(* Properties of the signature check.  The decoded length of a text is     *)
(* taken from RFC 4648, white space ignored: the text decodes only if it   *)
(* is base64 characters followed by the padding its length calls for.      *)
(***************************************************************************)

DataChars(runs) == RunsLength(SelectSeq(runs, LAMBDA r : r.kind = "data"))
PadChars(runs) == RunsLength(SelectSeq(runs, LAMBDA r : r.kind = "pad"))

\* whether no "=" is followed by a base64 character
PadsAtEnd(runs) ==
    \A i, j \in DOMAIN runs :
       (runs[i].kind = "pad" /\ runs[j].kind = "data") => j < i

\* the number of bytes the text decodes to, -1 if it does not decode
DecodedLength(runs) ==
    LET data == DataChars(runs)
        pad == PadChars(runs)
        called == CASE data % 4 = 0 -> 0
                    [] data % 4 = 2 -> 2
                    [] data % 4 = 3 -> 1
                    [] OTHER -> -1
    IN IF (\E i \in DOMAIN runs : runs[i].kind = "bad")
          \/ ~PadsAtEnd(runs) \/ called = -1 \/ pad # called
         THEN -1
         ELSE (data * 6) \div 8

NoE031 == \A i \in DOMAIN sigOut : sigOut[i].id # "E031"

\* C16: an Ed25519 signature value is accepted (no E031) exactly when it
\* decodes to 64 bytes, whatever white space the text contains.  (The
\* empty value, which the code reads as no signature at all, is left out.)
C16_AcceptedIffSixtyFourBytes ==
    (sigPc = "done" /\ sigIn # <<>>) =>
       (NoE031 <=> DecodedLength(sigIn) = 64)

\* a value of 87 base64 characters and five "=" is accepted, though it
\* is no encoding of 64 bytes
C16_Witness ==
    /\ sigPc = "done"
    /\ DataChars(sigIn) = 87 /\ PadChars(sigIn) = 5
    /\ NoE031

\* what does hold: a value that decodes, to however many bytes, is
\* accepted exactly when the bytes are 64, with or without line wraps
C16_DecodableValuesExact ==
    (sigPc = "done" /\ sigIn # <<>> /\ DecodedLength(sigIn) >= 0) =>
       (NoE031 <=> DecodedLength(sigIn) = 64)

-----------------------------------------------------------------------------
(***************************************************************************)
(* Properties of versionRules.  What an item carries is read off the       *)
(* document itself, not off what the accessors find in it.                 *)
(***************************************************************************)

EmptyKinds == {"empty", "blank"}

\* the item has a sparkle:version element, or a sparkle:version attribute
\* on its enclosure, whose text is empty or white space
CarriesEmptyVersion(it) ==
    it.version \in EmptyKinds \/ (it.enclosure /\ it.encVersion \in EmptyKinds)

\* the item has neither the element nor the attribute
CarriesNoVersion(it) ==
    it.version = "absent" /\ (~it.enclosure \/ it.encVersion = "absent")

\* C17: when an item carries a version value that is empty or white space
\* only, the result holds E029 and is invalid, also when the enclosure's
\* file name would yield a version.
C17_EmptyVersionIsError ==
    (vpc = "done" /\ RuleApplies(xml)) =>
       \A i \in DOMAIN xml.items :
          CarriesEmptyVersion(xml.items[i]) =>
             "E029" \in IdsOf(result.diagnostics) /\ ~result.valid

\* a feed under a variant namespace URI whose item has an empty
\* sparkle:version element and the URL MyApp_2.5.zip comes back valid,
\* with W041 and without E029
C17_Witness ==
    /\ vpc = "done" /\ xml.sparkleNs = "variant" /\ Len(xml.items) = 1
    /\ xml.items[1].version = "empty" /\ xml.items[1].encVersion = "absent"
    /\ xml.items[1].url = "underscore"
    /\ result.valid
    /\ "W041" \in IdsOf(result.diagnostics)
    /\ "E029" \notin IdsOf(result.diagnostics)

\* what does hold: under the canonical namespace URI every empty version
\* value is E029 and the result invalid, whatever the file name yields;
\* and an empty attribute is E029 under every namespace URI
C17_CanonicalNamespaceExact ==
    (vpc = "done" /\ RuleApplies(xml)) =>
       \A i \in DOMAIN xml.items :
          LET it == xml.items[i]
          IN (\/ (xml.sparkleNs = "canonical" /\ CarriesEmptyVersion(it))
              \/ (xml.sparkleNs # "none" /\ it.enclosure
                     /\ it.encVersion \in EmptyKinds)) =>
                "E029" \in IdsOf(result.diagnostics) /\ ~result.valid

\* an empty element beside a file name that yields a version, under the
\* canonical namespace URI: E029, invalid
C17_CanonicalCase ==
    /\ vpc = "done" /\ xml.sparkleNs = "canonical" /\ Len(xml.items) = 1
    /\ xml.items[1].version = "blank" /\ xml.items[1].encVersion = "absent"
    /\ xml.items[1].url = "underscore"
    /\ ~result.valid /\ "E029" \in IdsOf(result.diagnostics)

\* the URL's path: the text before the query and the fragment
UrlPath(url) ==
    LET stops == {i \in DOMAIN url : url[i] \in {"?", "#"}}
    IN IF stops = {} THEN url
       ELSE SubSeq(url, 1, (CHOOSE i \in stops : \A j \in stops : i <= j) - 1)

\* the last segment of the path: the file name
FileName(url) ==
    LET path == UrlPath(url)
    IN SubSeq(path, lastIndexOf(path, "/") + 2, Len(path))

\* the text between the last "_" and the last "." of the file name
ConventionValue(url) ==
    LET name == FileName(url)
    IN SubSeq(name, lastIndexOf(name, "_") + 2, lastIndexOf(name, "."))

\* name_value.ext: the file name has a "_", a "." after the last "_", and
\* between them a value with a digit in it
FollowsConvention(url) ==
    LET name == FileName(url)
    IN /\ lastIndexOf(name, "_") >= 0
       /\ lastIndexOf(name, ".") > lastIndexOf(name, "_")
       /\ \E i \in DOMAIN ConventionValue(url) : IsDigit(ConventionValue(url)[i])

\* C18: for an item without explicit version whose enclosure URL follows
\* name_value.ext, the deduced version is the text between the last
\* underscore and the last dot of the URL's file name, and the item gets
\* W041, not E008.
C18_VersionDeducedFromFileName ==
    (vpc = "done" /\ RuleApplies(xml)) =>
       \A i \in DOMAIN xml.items :
          LET it == xml.items[i]
          IN (CarriesNoVersion(it) /\ it.enclosure
                 /\ FollowsConvention(UrlText(it.url))) =>
                /\ filenameVersion(xml, it) = ConventionValue(UrlText(it.url))
                /\ "W041" \in IdsOf(result.diagnostics)
                /\ "E008" \notin IdsOf(result.diagnostics)

\* for the URL MyApp_2.5.zip?v=1.0 the item gets W041, but the version
\* deduced is not 2.5
C18_Witness ==
    /\ vpc = "done" /\ Len(xml.items) = 1
    /\ CarriesNoVersion(xml.items[1]) /\ xml.items[1].url = "query"
    /\ ConventionValue(UrlText("query")) = <<"2", ".", "5">>
    /\ filenameVersion(xml, xml.items[1]) # <<"2", ".", "5">>
    /\ "W041" \in IdsOf(result.diagnostics)

\* what does hold: the item gets W041 and not E008 for every such URL,
\* and for a URL without query or fragment the version deduced is the
\* text between the last underscore and the last dot
C18_UrlsWithoutQueryExact ==
    (vpc = "done" /\ RuleApplies(xml)) =>
       \A i \in DOMAIN xml.items :
          LET it == xml.items[i]
          IN (CarriesNoVersion(it) /\ it.enclosure
                 /\ FollowsConvention(UrlText(it.url))) =>
                /\ UrlPath(UrlText(it.url)) = UrlText(it.url) =>
                      filenameVersion(xml, it) = ConventionValue(UrlText(it.url))
                /\ "W041" \in IdsOf(result.diagnostics)
                /\ "E008" \notin IdsOf(result.diagnostics)

\* My_Cool_App_1.2.3.dmg yields 1.2.3 and W041
C18_PlainCase ==
    /\ vpc = "done" /\ Len(xml.items) = 1
    /\ CarriesNoVersion(xml.items[1]) /\ xml.items[1].url = "underscores"
    /\ filenameVersion(xml, xml.items[1]) = <<"1", ".", "2", ".", "3">>
    /\ "W041" \in IdsOf(result.diagnostics) /\ result.valid

-----------------------------------------------------------------------------
(***************************************************************************)
(* Properties of validate(): namespace variants and duplicate versions     *)
(***************************************************************************)

\* a feed with nothing to object to but, possibly, its namespace URI: an
\* rss 2.0 root, one channel, and items that each have a sparkle:version
\* element with a version in it, a signed enclosure and a date
OtherwiseCorrect(d) ==
    /\ d.root = "rss" /\ d.rssVersion = "2.0" /\ d.parseErrors = 0
    /\ d.channels = 1 /\ d.sparkleNs # "none" /\ Len(d.items) >= 1
    /\ \A i \in DOMAIN d.items :
          /\ d.items[i].version \in {"1", "2.5"}
          /\ d.items[i].encVersion = "absent"
          /\ d.items[i].enclosure /\ d.items[i].pubDate
    /\ \A i, j \in DOMAIN d.items :
          i # j => d.items[i].version # d.items[j].version

\* C19: a feed that declares the sparkle prefix with a known variant of
\* the namespace URI and is otherwise correct gets W026 and no error:
\* valid is TRUE.
C19_VariantNamespaceAccepted ==
    (vpc = "done" /\ xml.sparkleNs = "variant" /\ OtherwiseCorrect(xml)) =>
       /\ "W026" \in IdsOf(result.diagnostics)
       /\ result.errorCount = 0 /\ result.valid

\* such a feed, its item with <sparkle:version>1</sparkle:version> and
\* the URL app.zip, comes back invalid with W026 and E008
C19_Witness ==
    /\ vpc = "done" /\ xml.sparkleNs = "variant" /\ OtherwiseCorrect(xml)
    /\ xml.items[1].version = "1" /\ xml.items[1].url = "plain"
    /\ ~result.valid
    /\ {"W026", "E008"} \subseteq IdsOf(result.diagnostics)

\* what does hold: the variant is flagged W026 and never by an error of
\* its own (E004), and the same feed under the canonical URI is valid
C19_VariantFlaggedNotRejected ==
    (vpc = "done" /\ OtherwiseCorrect(xml)) =>
       /\ "E004" \notin IdsOf(result.diagnostics)
       /\ xml.sparkleNs = "variant" => "W026" \in IdsOf(result.diagnostics)
       /\ xml.sparkleNs = "canonical" =>
             (result.valid /\ "W026" \notin IdsOf(result.diagnostics))

\* the document has exactly two items, and both give the same version in
\* a sparkle:version element (no item of the model has a sparkle:channel
\* or an os attribute)
TwoItemsSameVersion(d) ==
    /\ RuleApplies(d) /\ Len(d.items) = 2
    /\ d.items[1].version \in {"1", "2.5"}
    /\ d.items[2].version = d.items[1].version
    /\ d.items[1].encVersion = "absent" /\ d.items[2].encVersion = "absent"

W020In(diags) == {i \in DOMAIN diags : diags[i].id = "W020"}

\* C20: when two items declare the same version, with no channel or os
\* to tell them apart, the result holds exactly one W020, and it is at
\* the second of the two items.
C20_OneDuplicateWarningAtSecond ==
    (vpc = "done" /\ TwoItemsSameVersion(xml)) =>
       /\ Cardinality(W020In(result.diagnostics)) = 1
       /\ \A i \in W020In(result.diagnostics) :
             result.diagnostics[i].line = ItemLine(2)

\* two items with <sparkle:version>1</sparkle:version> under a variant
\* namespace URI: no W020, E008 for both instead
C20_Witness ==
    /\ vpc = "done" /\ TwoItemsSameVersion(xml) /\ xml.sparkleNs = "variant"
    /\ W020In(result.diagnostics) = {}
    /\ \E i \in DOMAIN result.diagnostics :
          result.diagnostics[i].id = "E008" /\ result.diagnostics[i].more = <<1>>

\* what does hold: under the canonical namespace URI there is exactly one
\* W020, at the second item, its message without a count of further ones
C20_CanonicalNamespaceExact ==
    (vpc = "done" /\ TwoItemsSameVersion(xml) /\ xml.sparkleNs = "canonical") =>
       /\ Cardinality(W020In(result.diagnostics)) = 1
       /\ \A i \in W020In(result.diagnostics) :
             /\ result.diagnostics[i].line = ItemLine(2)
             /\ result.diagnostics[i].more = <<>>

\* the canonical case: two items of version 1, one W020 at the second
C20_CanonicalCase ==
    /\ vpc = "done" /\ TwoItemsSameVersion(xml) /\ xml.sparkleNs = "canonical"
    /\ \E i \in W020In(result.diagnostics) :
          result.diagnostics[i].line = ItemLine(2)

-----------------------------------------------------------------------------
(***************************************************************************)
(* Properties of the ordering rules (W018, W028).  Versions, dates and     *)
(* channel tags are read off the document.                                 *)
(***************************************************************************)

\* a feed under the canonical namespace URI whose items each have a
\* numeric sparkle:version and a pubDate
OrderedFeed(d) ==
    /\ RuleApplies(d) /\ d.sparkleNs = "canonical"
    /\ \A i \in DOMAIN d.items :
          /\ d.items[i].version \in {"1", "2.5", "2.10"}
          /\ d.items[i].pubDate

\* the items without a sparkle:channel, in document order
Untagged(d) ==
    SelectSeq([i \in 1..Len(d.items) |-> i],
              LAMBDA i : d.items[i].channel = "none")

\* no item of the sequence has a higher version than the one before it
DescendingVersions(d, idxs) ==
    \A k \in 2..Len(idxs) :
       compareVersions(VersionText(d.items[idxs[k]].version),
                       VersionText(d.items[idxs[k - 1]].version)) <= 0

\* no item of the sequence has a later date than the one before it
DescendingDates(d, idxs) ==
    \A k \in 2..Len(idxs) :
       d.items[idxs[k]].date <= d.items[idxs[k - 1]].date

\* C21: W018 is reported exactly when the items without a channel tag are
\* not in descending order of version, whatever the order of their dates.
C21_W018FollowsVersionOrder ==
    (vpc = "done" /\ OrderedFeed(xml)) =>
       ("W018" \in IdsOf(result.diagnostics)
           <=> ~DescendingVersions(xml, Untagged(xml)))

\* two untagged items, version 2.5 dated the 13th before version 1 dated
\* the 14th: descending by version, and W018 is reported
C21_Witness ==
    /\ vpc = "done" /\ OrderedFeed(xml) /\ Len(xml.items) = 2
    /\ Untagged(xml) = <<1, 2>>
    /\ xml.items[1].version = "2.5" /\ xml.items[1].date = 8228
    /\ xml.items[2].version = "1" /\ xml.items[2].date = 8229
    /\ DescendingVersions(xml, <<1, 2>>)
    /\ "W018" \in IdsOf(result.diagnostics)

\* the converse case: version 1 dated the 14th before version 2.5 dated
\* the 13th is ascending by version, and W018 is not reported
C21_AscendingVersionsUnreported ==
    /\ vpc = "done" /\ OrderedFeed(xml) /\ Len(xml.items) = 2
    /\ Untagged(xml) = <<1, 2>>
    /\ xml.items[1].version = "1" /\ xml.items[1].date = 8229
    /\ xml.items[2].version = "2.5" /\ xml.items[2].date = 8228
    /\ "W018" \notin IdsOf(result.diagnostics)

\* what does hold: W018 is reported exactly when the dates of the items,
\* tagged or not, are not in descending order
C21_W018FollowsDateOrder ==
    (vpc = "done" /\ OrderedFeed(xml)) =>
       ("W018" \in IdsOf(result.diagnostics)
           <=> ~DescendingDates(xml, [i \in 1..Len(xml.items) |-> i]))

\* every item is tagged with a sparkle:channel, and no two with the same
DifferentChannels(d) ==
    /\ \A i \in DOMAIN d.items : d.items[i].channel # "none"
    /\ \A i, j \in DOMAIN d.items :
          i # j => d.items[i].channel # d.items[j].channel

W028In(diags) == {i \in DOMAIN diags : diags[i].id = "W028"}

\* C22: when the items of a feed are tagged with different sparkle:channel
\* values, no W028 (version lower, pubDate later) is reported for them.
C22_NoW028AcrossChannels ==
    (vpc = "done" /\ OrderedFeed(xml) /\ Len(xml.items) >= 2
        /\ DifferentChannels(xml)) =>
       W028In(result.diagnostics) = {}

\* version 1 dated the 14th on channel stable before version 2.5 dated
\* the 13th on channel beta: W028 is reported, at the first item
C22_Witness ==
    /\ vpc = "done" /\ OrderedFeed(xml) /\ Len(xml.items) = 2
    /\ xml.items[1].version = "1" /\ xml.items[1].date = 8229
    /\ xml.items[1].channel = "stable"
    /\ xml.items[2].version = "2.5" /\ xml.items[2].date = 8228
    /\ xml.items[2].channel = "beta"
    /\ \E i \in W028In(result.diagnostics) :
          result.diagnostics[i].line = ItemLine(1)

\* what does hold: W028 is reported exactly when, going through the items
\* from the earliest date to the latest (document order among equal
\* dates), some version is lower than the one before it, channels or not
C22_W028FollowsDateSortedVersions ==
    (vpc = "done" /\ OrderedFeed(xml)) =>
       LET all == [i \in 1..Len(xml.items) |-> i]
           byDate == sortedByDate(xml.items, all)
       IN W028In(result.diagnostics) # {}
             <=> \E k \in 2..Len(byDate) :
                    compareVersions(VersionText(xml.items[byDate[k]].version),
                                    VersionText(xml.items[byDate[k - 1]].version)) < 0

-----------------------------------------------------------------------------
(***************************************************************************)
(* Properties of the rule loop of validate()                               *)
(***************************************************************************)

\* the rules of the rule list that have run
RulesRun == ran \cap Range(allRules)

\* the rule loop is over
LoopOver == vpc \in {"xmlformat", "assemble", "done"}

\* a fatal structural error has been pushed, and E005 or E007 among them
StopsAfterStructure ==
    /\ IdsOf(diagnostics) \cap FatalStructuralIds # {}
    /\ IdsOf(diagnostics) \cap {"E005", "E007"} # {}

\* C23: once the structural rule has run, the loop runs no further rule
\* if and only if a fatal structural error is present and E005 or E007 is
\* among the diagnostics; otherwise (a version-attribute or namespace
\* issue alone, say) every rule of the list is run.
C23_StopsIffChannelOrItemsMissing ==
    "structureRules" \in ran =>
       /\ StopsAfterStructure => (LoopOver /\ RulesRun = {"structureRules"})
       /\ (~StopsAfterStructure /\ LoopOver) => RulesRun = Range(allRules)

\* a feed without version attribute and without sparkle namespace, its
\* channel and items in place: E003 and E004, and every rule has run
\* (the summary I001 of the last rule is in the result)
C23_Witness ==
    /\ vpc = "done"
    /\ {"E003", "E004"} \subseteq IdsOf(result.diagnostics)
    /\ IdsOf(result.diagnostics) \cap {"E005", "E007"} = {}
    /\ RulesRun = Range(allRules)
    /\ "I001" \in IdsOf(result.diagnostics)

\* the other side: a channel without items stops the loop after the
\* structural rule
C23_StopCase ==
    /\ vpc = "done" /\ "E007" \in IdsOf(result.diagnostics)
    /\ RulesRun = {"structureRules"}

-----------------------------------------------------------------------------
(***************************************************************************)
(* Properties of validateRemote(): timeouts, termination, coverage         *)
(***************************************************************************)

\* the probes whose fetch is aborted in this step
AbortedInStep ==
    {k \in DOMAIN probe :
        /\ k \in DOMAIN probe'
        /\ probe[k].st = "inflight" /\ probe'[k].st = "aborted"}

\* C24: the expiry of a probe's timeout aborts the fetch of that probe
\* and nothing else: every sibling of the batch is left as it is, the
\* batch loop goes on, and the probes of a later batch start unaborted.
C24_TimeoutIsLocal ==
    [][/\ \A k \in AbortedInStep :
             /\ probe' = [probe EXCEPT ![k].st = "aborted"]
             /\ rpc' = rpc /\ results' = results /\ batchStart' = batchStart
       /\ (rpc = "loop" /\ rpc' = "batch") =>
             \A k \in DOMAIN probe' : probe'[k].st \in {"inflight", "settled"}
      ]_vars

\* one probe of a batch has timed out and a sibling's fetch is still in
\* flight
C24_Witness ==
    /\ rpc = "batch"
    /\ \E k, j \in DOMAIN probe :
          probe[k].st = "aborted" /\ probe[j].st = "inflight"

\* a probe of a later batch succeeds although a probe of the first batch
\* ended in a failure
C24_LaterProbeSucceeds ==
    /\ rpc = "batch" /\ results # <<>> /\ results[1].res.error
    /\ \E j \in DOMAIN probe :
          probe[j].st = "settled" /\ probe[j].res.status = 200

-----------------------------------------------------------------------------
(***************************************************************************)
(* Properties of the rule list: which module emits which id                *)
(***************************************************************************)

\* the ids the named rule module pushes for the document
EmittedBy(name, d) == IdsOf(ApplyRule(name, d))

\* C25: no diagnostic id is pushed by two different rule modules of the
\* rule list, so that consolidation never folds the findings of two
\* modules into one.
C25_ModulesOwnDisjointIds ==
    (vpc = "done" /\ RulesRun = Range(allRules)) =>
       \A r1, r2 \in Range(allRules) :
          r1 # r2 => EmittedBy(r1, xml) \cap EmittedBy(r2, xml) = {}

\* a feed under a variant namespace URI with an item dated 1 Jan 2000:
\* structureRules and dateRules each push a W026, and the result holds
\* one W026, at the root, that counts the other as "1 more similar issue"
C25_Witness ==
    /\ vpc = "done" /\ RulesRun = Range(allRules)
    /\ xml.sparkleNs = "variant"
    /\ \E i \in DOMAIN xml.items : xml.items[i].date = -366
    /\ "W026" \in EmittedBy("structureRules", xml)
    /\ "W026" \in EmittedBy("dateRules", xml)
    /\ \E k \in DOMAIN result.diagnostics :
          /\ result.diagnostics[k].id = "W026"
          /\ result.diagnostics[k].line = RootLine(xml)
          /\ result.diagnostics[k].more = <<1>>

\* what does hold: W026 is the only id two modules of the list share
C25_OnlyW026Shared ==
    (vpc = "done" /\ RulesRun = Range(allRules)) =>
       \A r1, r2 \in Range(allRules) :
          r1 # r2 => EmittedBy(r1, xml) \cap EmittedBy(r2, xml) \subseteq {"W026"}

-----------------------------------------------------------------------------
(***************************************************************************)
(* Properties of the file-name fallback                                    *)
(***************************************************************************)

HasUnderscore(url) == \E i \in DOMAIN url : url[i] = "_"

\* the text the fallback deduces from a URL with an underscore: what
\* follows the last underscore, up to its last dot if it has one
DeducedText(url) ==
    LET last == SubSeq(url, lastIndexOf(url, "_") + 2, Len(url))
    IN IF lastIndexOf(last, ".") = -1 THEN last
       ELSE SubSeq(last, 1, lastIndexOf(last, "."))

HasDigit(text) == \E i \in DOMAIN text : IsDigit(text[i])

\* C26: for an item without explicit version, the fallback yields a
\* version (W041 in place of E008) only if the deduced text has a digit
\* in it; when the deduced text has none, the item gets E008.
C26_FallbackNeedsDigit ==
    (vpc = "done" /\ RuleApplies(xml) /\ Len(xml.items) = 1) =>
       LET it == xml.items[1]
           url == UrlText(it.url)
       IN (CarriesNoVersion(it) /\ it.enclosure /\ HasUnderscore(url)
              /\ ~HasDigit(DeducedText(url))) =>
             /\ "E008" \in IdsOf(result.diagnostics)
             /\ "W041" \notin IdsOf(result.diagnostics)

\* the URL https://example.com/App_latest, whose deduced text "latest"
\* has no digit: W041 and no E008, the feed valid
C26_Witness ==
    /\ vpc = "done" /\ Len(xml.items) = 1
    /\ CarriesNoVersion(xml.items[1]) /\ xml.items[1].url = "noext"
    /\ DeducedText(UrlText("noext")) = <<"l", "a", "t", "e", "s", "t">>
    /\ "W041" \in IdsOf(result.diagnostics)
    /\ "E008" \notin IdsOf(result.diagnostics)
    /\ result.valid

\* what does hold: when the text after the last underscore has a dot in
\* it, the item gets W041 if the deduced text has a digit and E008 if not
C26_WithExtensionExact ==
    (vpc = "done" /\ RuleApplies(xml) /\ Len(xml.items) = 1) =>
       LET it == xml.items[1]
           url == UrlText(it.url)
           last == SubSeq(url, lastIndexOf(url, "_") + 2, Len(url))
       IN (CarriesNoVersion(it) /\ it.enclosure /\ HasUnderscore(url)
              /\ lastIndexOf(last, ".") # -1) =>
             IF HasDigit(DeducedText(url))
               THEN /\ "W041" \in IdsOf(result.diagnostics)
                    /\ "E008" \notin IdsOf(result.diagnostics)
               ELSE /\ "E008" \in IdsOf(result.diagnostics)
                    /\ "W041" \notin IdsOf(result.diagnostics)

\* https://example.com/App_latest.zip: the deduced text "latest" has no
\* digit, and the item gets E008
C26_WordCase ==
    /\ vpc = "done" /\ Len(xml.items) = 1
    /\ CarriesNoVersion(xml.items[1]) /\ xml.items[1].url = "word"
    /\ "E008" \in IdsOf(result.diagnostics) /\ ~result.valid

-----------------------------------------------------------------------------
(***************************************************************************)
(* Properties of consolidateDiagnostics                                    *)
(***************************************************************************)

\* C27: consolidation is idempotent: consolidating the consolidated
\* diagnostics of a run yields them again, before the sort and after it.
C27_ConsolidationIdempotent ==
    vpc \in {"assemble", "done"} =>
       /\ consolidateDiagnostics(consolidateDiagnostics(diagnostics))
             = consolidateDiagnostics(diagnostics)
       /\ vpc = "done" =>
             consolidateDiagnostics(result.diagnostics) = result.diagnostics

\* a run in which consolidation had work to do: two ids pushed more than
\* once, their first members now carrying a count
C27_Witness ==
    /\ vpc = "done"
    /\ Len(consolidateDiagnostics(diagnostics)) < Len(diagnostics)
    /\ \E i, j \in DOMAIN result.diagnostics :
          /\ i # j
          /\ result.diagnostics[i].more # <<>>
          /\ result.diagnostics[j].more # <<>>

\* validateRemote() has returned its diagnostics
Resolved == rpc \in {"done", "merged"}

\* C28: validateRemote() eventually resolves, for every document and
\* every concurrency a caller can pass, 0 and negative numbers included.
C28_EventuallyResolves == <>Resolved

\* concurrency 0 on a feed with URLs to check: an empty batch has been
\* cut, and the loop variable has not moved
C28_Witness ==
    /\ concurrency = 0 /\ Len(enclosures) > 0
    /\ rpc = "batch" /\ probe = <<>> /\ batchStart = 0

\* what does hold: for every concurrency >= 1 the call resolves, every
\* probe having completed by its timeout at the latest
C28_ResolvesForPositiveN == concurrency >= 1 => <>Resolved

\* with concurrency <= 0 and at least one URL the call never resolves
C28_NeverResolvesOtherwise ==
    (concurrency <= 0 /\ Len(enclosures) > 0) => ~Resolved

\* the entries of the results array for the e-th extracted URL
ChecksOf(e) == {k \in DOMAIN results : results[k].enc = e}

\* the calls of fetch() for the e-th extracted URL
FetchesOf(e) == {k \in DOMAIN fetched : fetched[k] = e}

\* the diagnostics returned for the e-th extracted URL, in their order
ReturnedFor(e) == SelectSeq(remoteDiags, LAMBDA d : d.enc = e)

\* C29: for every concurrency N >= 1 and every number of URLs, each
\* extracted URL is checked exactly once (skipped by the guard, or
\* fetched once), and the diagnostics returned are those of the URLs'
\* results, URL by URL in extraction order.
C29_EachUrlOnceInExtractionOrder ==
    (Resolved /\ concurrency >= 1) =>
       /\ \A e \in DOMAIN enclosures :
             /\ Cardinality(ChecksOf(e)) = 1
             /\ Cardinality(FetchesOf(e)) =
                   IF results[OutcomeOf(e)].res.skipped THEN 0 ELSE 1
             /\ ReturnedFor(e) =
                   resultDiagnostics(enclosures, results[OutcomeOf(e)])
       /\ \A i, j \in DOMAIN remoteDiags :
             i < j => remoteDiags[i].enc <= remoteDiags[j].enc
       /\ \A i \in DOMAIN remoteDiags : remoteDiags[i].enc \in DOMAIN enclosures

\* three URLs under concurrency 2: the last batch holds the third URL
\* alone; one URL was skipped by the guard, the others fetched, and the
\* diagnostics of the first and the third are both returned
C29_Witness ==
    /\ rpc = "done" /\ concurrency = 2 /\ Len(enclosures) = 3
    /\ Len(probe) = 1 /\ probe[1].enc = 3
    /\ \E e \in DOMAIN enclosures : results[OutcomeOf(e)].res.skipped
    /\ FetchesOf(3) # {}
    /\ ReturnedFor(1) # <<>> /\ ReturnedFor(3) # <<>>

\* a batch of two whose second fetch completed first: the diagnostics of
\* the first URL are returned before those of the second
C29_OutOfOrderCase ==
    /\ rpc = "done" /\ concurrency = 2 /\ Len(enclosures) = 2
    /\ Len(probe) = 2 /\ probe[2].first
    /\ ReturnedFor(1) # <<>> /\ ReturnedFor(2) # <<>>
    /\ remoteDiags[1].enc = 1

-----------------------------------------------------------------------------
(***************************************************************************)
(* Properties of the proxy's fetch of the target                           *)
(***************************************************************************)

\* a host that is, or resolves to, an address the guard is to reject
IsInternalHost(h) == \E a \in h.addrs : IsRejectedAddr(a)

\* C30: a URL that passes the guard never causes a request to a
\* private/internal address: the destination of a redirect answer is
\* not requested unless it passes the guard too.
C30_RedirectDestinationGuarded ==
    \A i \in DOMAIN followed : ~IsInternalHost(followed[i])

\* https://example.com/ resolves to a public address and passes the
\* guard; its answer redirects to http://169.254.169.254/, which is
\* requested and whose answer the proxy returns
C30_Witness ==
    /\ req.kind = "url" /\ req.host = H_publicName
    /\ dns.kind = "json" /\ AnswerAddrs # {}
    /\ \A a \in AnswerAddrs : ~IsRejectedAddr(a)
    /\ targetFetched
    /\ followed = <<H_metadata>>
    /\ ppc = "done" /\ response.status = 200

\* what holds: the guard is asked about the URL of the request, and a
\* redirect is followed only after that URL has passed it
C30_OnlyFirstUrlGuarded ==
    followed # <<>> =>
      /\ targetFetched
      /\ req.kind = "url" /\ req.protocol \in {"http:", "https:"}
      /\ IF req.host.kind = "name"
           THEN /\ dns.kind = "json" /\ AnswerAddrs # {}
                /\ \A a \in AnswerAddrs : ~IsRejectedAddr(a)
           ELSE ~isPrivateIP(hostnameOf(req.host))

=============================================================================
